---- MODULE Spec2Model ----
(***************************************************************************)
(* The storage service of the volleyball app (src/services/storage.ts):    *)
(* three record collections (users, events, attendance), the join that     *)
(* hydrates events with participants, and the mutating operations.          *)
(*                                                                         *)
(* storage.ts has two backends, selected by `db` (src/services/firebase.ts):*)
(* db = null   -> localStorage, one serialized array per collection;        *)
(* db # null   -> Firestore, one collection of documents keyed by doc id.   *)
(* The model runs one deployment of each backend side by side and feeds     *)
(* both the same sequence of public calls with the same arguments:          *)
(*   ls  is the localStorage of the deployment with db = null,              *)
(*   fs  is the Firestore database of the deployment with db # null,        *)
(*   last records the most recent call, its arguments, whether it threw in  *)
(*        each deployment, and what the target looked like before the call. *)
(* Beside the stores:                                                       *)
(*   app    is the state of the App component (App.tsx),                    *)
(*   detail is the rendered EventDetail (EventDetail.tsx), empty if none,   *)
(*   task   is a Firestore deleteUser / deleteEvent call run await by       *)
(*          await, with the attendance deletes it has in flight,            *)
(*   calls  are two createUser calls run await by await, each with the      *)
(*          users its getUsers read,                                        *)
(*   ui     is the loading flags of App and EventDetail and the handler     *)
(*          that is suspended at a storage call.                            *)
(*                                                                         *)
(* Modelling decisions:                                                     *)
(*  - in the lockstep actions the awaited Firestore calls of the mutating   *)
(*    operations succeed and each public call runs to completion before the *)
(*    next one starts (spec section 5); failing reads are modelled for      *)
(*    getEvents (GetEvents), failing and interleaved deletes for the        *)
(*    cascades (CascadeStart, SubDeleteCompletes, SubDeleteFails), and      *)
(*    interleaved createUser calls (CreateUserBegin, CreateUserResume);     *)
(*  - names are sequences of characters so that trim() and toLowerCase()    *)
(*    are computed; ids are strings so that the composite document id       *)
(*    `${eventId}_${userId}` is computed by concatenation;                  *)
(*  - AttendanceRecord.timestamp and User.photoUrl are left out: no read    *)
(*    path of storage.ts branches on them;                                  *)
(*  - of the stored event fields only id and title are kept (title stands   *)
(*    for every field updateEvent overwrites);                              *)
(*  - getDocs returns the documents of a collection in a fixed order; the   *)
(*    model does not rely on which.                                         *)
(***************************************************************************)
EXTENDS Integers, Sequences, FiniteSets, TLC

VARIABLES ls, fs, last, app, detail, task, calls, ui

vars == <<ls, fs, last, app, detail, task, calls, ui>>

(* ------------------------------- bounds -------------------------------- *)

\* at most this many stored records (users, events and attendance records
\* together) per deployment
MaxRecords == 3

\* the largest totalCost of the events of SpecShare
MaxCost == 40

(* ---------------------------- input universes -------------------------- *)

\* the value of `db` in the two deployments
NULL == "null"
FIRESTORE == "firestore"

\* ids generateId() may return for a user, and for an event created without id
UserGenIds == {"c", "d"}
EventGenIds == {"g"}

\* an absent event id (`!event.id`)
NoId == ""

\* The arguments the callers pass, per specification:
\*   names     names typed into createUser
\*   updates   Partial<User> objects passed to updateUser ({} or {name})
\*   userIds   ids passed to updateUser / deleteUser
\*   attPairs, statuses, hasPaids
\*             arguments of updateAttendance: <<eventId, userId>> (arbitrary
\*             strings), status, and hasPaid omitted ("undefined"), true or
\*             false
\*   newIds    event ids passed to createEvent (NoId: none)
\*   eventIds  event ids passed to updateEvent / deleteEvent
\*   titles    event titles passed to createEvent / updateEvent
\*   participants
\*             participants lists carried by the event passed to createEvent
\*             / updateEvent

\* joins and cascades: two names and a rename, one event id, a stored and an
\* orphan user id
StoreArgs ==
    [names     |-> { <<"A">>, <<"B">> },
     updates   |-> { <<>>, [name |-> <<"B">>] },
     userIds   |-> {"c", "b_c"},
     attPairs  |-> { <<"a", "c">>, <<"a", "b_c">> },
     statuses  |-> {"joined", "declined"},
     hasPaids  |-> {"undefined", "true"},
     newIds    |-> {"a", NoId},
     eventIds  |-> {"a", "g"},
     titles    |-> {"t1", "t2"},
     participants |-> { <<>> }]

\* attendance upserts: two records of one event, and two pairs with the
\* same composite id "a_b_c"; every status change and every form of the
\* hasPaid argument
AttendanceArgs ==
    [names     |-> { <<"A">> },
     updates   |-> { <<>> },
     userIds   |-> {"c"},
     attPairs  |-> { <<"a", "c">>, <<"a", "b_c">>, <<"a_b", "c">> },
     statuses  |-> {"joined", "declined"},
     hasPaids  |-> {"undefined", "true", "false"},
     newIds    |-> {"a"},
     eventIds  |-> {"a"},
     titles    |-> {"t1"},
     participants |-> { <<>> }]

\* user names: upper and lower case, trailing blank, renames
UserArgs ==
    [names     |-> { <<"A">>, <<"a", " ">>, <<"B">> },
     updates   |-> { <<>>, [name |-> <<"a", " ">>] },
     userIds   |-> {"c", "d"},
     attPairs  |-> { <<"a", "c">> },
     statuses  |-> {"joined"},
     hasPaids  |-> {"true"},
     newIds    |-> {"a"},
     eventIds  |-> {"a"},
     titles    |-> {"t1"},
     participants |-> { <<>> }]

\* events: created with and without id, updated and deleted whether stored
\* or not, carrying a participants list or none
EventArgs ==
    [names     |-> { <<"A">> },
     updates   |-> { <<>> },
     userIds   |-> {"c"},
     attPairs  |-> { <<"a", "c">> },
     statuses  |-> {"joined"},
     hasPaids  |-> {"true"},
     newIds    |-> {"a", NoId},
     eventIds  |-> {"a", "g"},
     titles    |-> {"t1", "t2"},
     participants |->
         { <<>>,
           << [userId |-> "d", name |-> <<"B">>, status |-> "joined",
               hasPaid |-> TRUE] >> }]

\* cascades: two attendance records of one event and two of one user
CascadeArgs ==
    [names     |-> { <<"A">> },
     updates   |-> { <<>> },
     userIds   |-> {"c"},
     attPairs  |-> { <<"a", "c">>, <<"a", "d">>, <<"g", "c">> },
     statuses  |-> {"joined"},
     hasPaids  |-> {"undefined"},
     newIds    |-> {"a"},
     eventIds  |-> {"a"},
     titles    |-> {"t1"},
     participants |-> { <<>> }]

\* reads: two users, two attendance records of one event
ReadArgs ==
    [names     |-> { <<"A">>, <<"B">> },
     updates   |-> { <<>> },
     userIds   |-> {"c"},
     attPairs  |-> { <<"a", "c">>, <<"a", "d">> },
     statuses  |-> {"joined"},
     hasPaids  |-> {"undefined", "true"},
     newIds    |-> {"a"},
     eventIds  |-> {"a"},
     titles    |-> {"t1"},
     participants |-> { <<>> }]

\* the callers that may have a createUser call in flight at the same time,
\* and the names they pass
Callers == {1, 2}
CallerNames == { <<"A">>, <<"a", " ">>, <<"B">> }

\* The App (App.tsx) under SpecApp: the browser, the user, and the lists
\* storage.getEvents resolves with.
\* offsets of the browser's time zone from UTC, in hours
TimeZones == {-5, 0, 2}

\* readings of the clock (new Date()): noon UTC of day 10
Clock == {252}

\* the users who log in
AppUsers == {"c"}

\* the calendar days the user clicks
ClickedDays == {8, 9, 10}

\* "19-2000145399/0800"
AccountNumber ==
    <<"1", "9", "-", "2", "0", "0", "0", "1", "4", "5", "3", "9", "9", "/",
      "0", "8", "0", "0">>

\* participants lists as getEvents builds them (one entry per user)
AppParticipants ==
    { <<>>,
      << [userId |-> "c", status |-> "joined", hasPaid |-> FALSE] >>,
      << [userId |-> "c", status |-> "joined", hasPaid |-> TRUE] >>,
      << [userId |-> "c", status |-> "declined", hasPaid |-> FALSE] >>,
      << [userId |-> "d", status |-> "declined", hasPaid |-> FALSE] >>,
      << [userId |-> "d", status |-> "joined", hasPaid |-> FALSE],
         [userId |-> "c", status |-> "joined", hasPaid |-> FALSE],
         [userId |-> "b", status |-> "joined", hasPaid |-> TRUE] >> }

\* the lists getEvents resolves with: none, an evening event three, two or
\* one day before day 10, and with it a morning event on day 9 or day 10;
\* and three past events, not in date order, the second of them paid or not
AppEventLists ==
    LET Evening == { [id |-> "e1", date |-> d, time |-> 18, totalCost |-> 1001,
                      accountNumber |-> AccountNumber, participants |-> ps] :
                         d \in {7, 8, 9}, ps \in AppParticipants }
        Morning == { [id |-> "e2", date |-> d, time |-> 9, totalCost |-> 500,
                      accountNumber |-> AccountNumber, participants |-> <<>>] :
                         d \in {9, 10} }
        Past(ps) == << [id |-> "e3", date |-> 6, time |-> 18, totalCost |-> 300,
                         accountNumber |-> AccountNumber,
                         participants |->
                             << [userId |-> "c", status |-> "joined", hasPaid |-> FALSE],
                                [userId |-> "d", status |-> "joined", hasPaid |-> FALSE] >>],
                        [id |-> "e1", date |-> 7, time |-> 18, totalCost |-> 1001,
                         accountNumber |-> AccountNumber, participants |-> ps],
                        [id |-> "e4", date |-> 5, time |-> 18, totalCost |-> 200,
                         accountNumber |-> AccountNumber,
                         participants |->
                             << [userId |-> "c", status |-> "joined", hasPaid |-> FALSE] >>] >>
    IN  { <<>> } \cup { <<e>> : e \in Evening }
                 \cup { <<e, m>> : e \in { x \in Evening : x.date = 9 }, m \in Morning }
                 \cup { Past(ps) : ps \in { x \in AppParticipants : Len(x) = 3
                                                 \/ (x # <<>> /\ x[1].hasPaid) } }

\* the lists getEvents resolves with under SpecShare: an event of day 5 of
\* total cost 0..MaxCost that the user c and zero to two others joined and
\* one declined, followed by an event of day 6 of total cost 0 that two joined
ShareEventLists ==
    LET c == [userId |-> "c", status |-> "joined", hasPaid |-> FALSE]
        others == << [userId |-> "d", status |-> "joined", hasPaid |-> TRUE],
                     [userId |-> "b", status |-> "joined", hasPaid |-> FALSE] >>
        declined == [userId |-> "a", status |-> "declined", hasPaid |-> FALSE]
    IN  { << [id |-> "e1", date |-> 5, time |-> 18, totalCost |-> totalCost,
              accountNumber |-> AccountNumber,
              participants |-> <<c>> \o SubSeq(others, 1, n - 1) \o <<declined>>],
             [id |-> "e2", date |-> 6, time |-> 18, totalCost |-> 0,
              accountNumber |-> AccountNumber,
              participants |-> <<declined, c>> \o SubSeq(others, 1, 1)] >> :
              totalCost \in 0..MaxCost, n \in {1, 2, 3} }

\* the lists the storage calls resolve with under SpecLoading: none, and the
\* evening event of day 9 with three participants, alone or with a morning
\* event
LoadedLists ==
    { l \in AppEventLists :
          l = <<>> \/ (l[1].date = 9 /\ Len(l[1].participants) = 3) }

\* the events handed to handleCreateEvent under SpecLoading
NewEvents == { [id |-> "e1", date |-> 9], [id |-> "e2", date |-> 9] }

\* EventDetail under SpecIban: the account numbers of the events it is given.
\* prefix parts: none, 1 to 6 digits, 7 digits, a letter
Prefixes ==
    { <<>>,
      <<"1", "9">>,
      <<"0", "0", "0", "0", "1", "9">>,
      <<"1", "2", "3", "4", "5", "6">>,
      <<"1", "2", "3", "4", "5", "6", "7">>,
      <<"1", "a">> }

\* number parts: 1 to 10 digits, 11 digits, none
Numbers ==
    { <<"1">>,
      <<"1", "3">>,
      <<"3", "6">>,
      <<"1", "2", "3", "4", "5", "6", "7", "8", "9">>,
      <<"2", "0", "0", "0", "1", "4", "5", "3", "9", "9">>,
      <<"1", "2", "3", "4", "5", "6", "7", "8", "9", "0", "1">>,
      <<>> }

\* bank codes: 4 digits, 3 digits, 5 digits, a letter
BankCodes ==
    { <<"0", "1", "0", "0">>,
      <<"0", "8", "0", "0">>,
      <<"6", "2", "1", "0">>,
      <<"1", "0", "0">>,
      <<"0", "1", "0", "0", "0">>,
      <<"0", "8", "o", "0">> }

\* the empty string, a blank, IBANs (22 digits, with blanks, 21 digits,
\* lower case) and strings with the wrong separators
OtherAccounts ==
    { <<>>,
      <<" ">>,
      <<"C", "Z", "6", "5", "0", "8", "0", "0", "0", "0", "0", "0", "1", "9", "2", "0", "0", "0", "1", "4", "5", "3", "9", "9">>,
      <<"C", "Z", "6", "5", " ", "0", "8", "0", "0", " ", "0", "0", "0", "0", " ", "1", "9", "2", "0", " ", "0", "0", "1", "4", " ", "5", "3", "9", "9">>,
      <<"C", "Z", "6", "5", "0", "8", "0", "0", "0", "0", "0", "0", "1", "9", "2", "0", "0", "0", "1", "4", "5", "3", "9">>,
      <<"c", "z", "6", "5", "0", "8", "0", "0", "0", "0", "0", "0", "1", "9", "2", "0", "0", "0", "1", "4", "5", "3", "9", "9">>,
      <<"1", "9", "-", "2", "0", "0", "0", "1", "4", "5", "3", "9", "9", "-", "0", "8", "0", "0">>,
      <<"1", "9", "/", "2", "0", "0", "0", "1", "4", "5", "3", "9", "9", "/", "0", "8", "0", "0">> }

\* [prefix-]number/bankCode, plain and with blanks around the separators
AccountStrings ==
    LET Plain(p, n, b)  == (IF p = <<>> THEN <<>> ELSE p \o <<"-">>) \o n \o <<"/">> \o b
        Spaced(p, n, b) == <<" ">> \o (IF p = <<>> THEN <<>> ELSE p \o <<" ", "-">>)
                               \o n \o <<" ", "/", " ">> \o b
    IN  { Plain(p, n, b) : p \in Prefixes, n \in Numbers, b \in BankCodes }
            \cup { Spaced(p, n, b) : p \in { <<>>, <<"1", "9">> }, n \in Numbers,
                                     b \in { <<"0", "8", "0", "0">>, <<"1", "0", "0">> } }
            \cup OtherAccounts

(* ------------------------------ JavaScript ----------------------------- *)

Range(s) == { s[i] : i \in 1..Len(s) }

\* Array.prototype.findIndex, 1-based; 0 stands for JavaScript's -1; matching
\* is the set of elements the callback accepts
FindIndex(s, matching) ==
    IF \E i \in 1..Len(s) : s[i] \in matching
    THEN CHOOSE i \in 1..Len(s) :
             s[i] \in matching /\ \A j \in 1..(i - 1) : s[j] \notin matching
    ELSE 0

\* object spread { ...a, ...b }
Spread(a, b) ==
    [k \in (DOMAIN a) \cup (DOMAIN b) |-> IF k \in DOMAIN b THEN b[k] ELSE a[k]]

RECURSIVE TrimStart(_)
TrimStart(s) ==
    IF s # <<>> /\ Head(s) = " " THEN TrimStart(Tail(s)) ELSE s

RECURSIVE TrimEnd(_)
TrimEnd(s) ==
    IF s # <<>> /\ s[Len(s)] = " " THEN TrimEnd(SubSeq(s, 1, Len(s) - 1)) ELSE s

\* String.prototype.trim
Trim(s) == TrimEnd(TrimStart(s))

LowerChar(c) ==
    CASE c = "A" -> "a"
      [] c = "B" -> "b"
      [] OTHER -> c

\* String.prototype.toLowerCase
ToLowerCase(s) == [i \in 1..Len(s) |-> LowerChar(s[i])]

(* ------------------------------ Firestore ------------------------------ *)
(* A collection is a function from document id to document data.           *)

EmptyCollection == [d \in {} |-> <<>>]

\* setDoc(doc(db, col, id), data): create or overwrite
setDoc(col, id, data) == (id :> data) @@ col

\* setDoc(doc(db, col, id), data, { merge: true }): create, or merge the fields
setDocMerge(col, id, data) ==
    IF id \in DOMAIN col
    THEN (id :> Spread(col[id], data)) @@ col
    ELSE (id :> data) @@ col

\* deleteDoc(doc(db, col, id)): succeeds whether or not the document exists
deleteDoc(col, id) == [d \in (DOMAIN col) \ {id} |-> col[d]]

RECURSIVE DocsOf(_, _)
DocsOf(col, ids) ==
    IF ids = {} THEN <<>>
    ELSE LET d == CHOOSE x \in ids : TRUE
         IN  <<col[d]>> \o DocsOf(col, ids \ {d})

\* getDocs(collection(db, col)) mapped with doc.data()
getDocs(col) == DocsOf(col, DOMAIN col)

\* getDocs(query(collection, where(field, "==", value))): the matching refs
queryRefs(col, field, value) == { d \in DOMAIN col : col[d][field] = value }

RECURSIVE deleteAll(_, _)
\* Promise.all(snapshot.docs.map(d => deleteDoc(d.ref)))
deleteAll(col, refs) ==
    IF refs = {} THEN col
    ELSE LET d == CHOOSE x \in refs : TRUE
         IN  deleteAll(deleteDoc(col, d), refs \ {d})

(* ------------------------------ results -------------------------------- *)

\* a call that resolved, leaving the store st
Resolved(st) == [ok |-> TRUE, store |-> st]
\* a call that resolved with a value, leaving the store st
ResolvedWith(st, value) == [ok |-> TRUE, store |-> st, value |-> value]
\* a call that threw; the store is as the call left it
Threw(st) == [ok |-> FALSE, store |-> st]

(* -------------------------------- users -------------------------------- *)

getUsers(db, st) ==
    IF db = NULL THEN st.users ELSE getDocs(st.users)

getUser(db, st, id) ==
    LET users == getUsers(db, st)
    IN  { users[i] : i \in { j \in 1..Len(users) : users[j].id = id } }

\* NameExists comparing the names as they are
NameExistsExact(users, name) ==
    \E i \in 1..Len(users) : users[i].name = name

\* users.some(u => u.name.toLowerCase() === name.trim().toLowerCase())
NameExists(users, name) ==
    \E i \in 1..Len(users) : ToLowerCase(users[i].name) = ToLowerCase(Trim(name))

\* id is the value generateId() returns when it is reached
createUser(db, st, id, name) ==
    LET users   == getUsers(db, st)
        newUser == [id |-> id, name |-> Trim(name)]
    IN  IF NameExists(users, name)
        THEN Threw(st)
        ELSE IF db = NULL
             THEN Resolved([st EXCEPT !.users = Append(st.users, newUser)])
             ELSE Resolved([st EXCEPT !.users = setDoc(st.users, newUser.id, newUser)])

\* createUser resumed after `await getUsers()` resolved with users: the
\* check runs on users, the write on the store as it is now
createUserAfterRead(db, st, users, id, name) ==
    LET newUser == [id |-> id, name |-> Trim(name)]
    IN  IF NameExists(users, name)
        THEN Threw(st)
        ELSE IF db = NULL
             THEN Resolved([st EXCEPT !.users = Append(st.users, newUser)])
             ELSE Resolved([st EXCEPT !.users = setDoc(st.users, newUser.id, newUser)])

updateUser(db, st, userId, updates) ==
    LET users       == getUsers(db, st)
        IsUser(u)   == u.id = userId
        userIndex   == FindIndex(users, { x \in Range(users) : IsUser(x) })
        updatedUser == Spread(users[userIndex], updates)
    IN  IF userIndex = 0
        THEN Threw(st)
        ELSE IF db = NULL
             THEN LET idx == FindIndex(st.users, { x \in Range(st.users) : IsUser(x) })
                  IN  IF idx # 0
                      THEN Resolved([st EXCEPT !.users = [st.users EXCEPT ![idx] = updatedUser]])
                      ELSE Resolved(st)
             ELSE Resolved([st EXCEPT !.users = setDoc(st.users, userId, updatedUser)])

\* deleteUserLS filtering the users only
deleteUserLSUsersOnly(st, userId) ==
    LET NotUser(u) == u.id # userId
    IN  [st EXCEPT !.users = SelectSeq(st.users, NotUser)]

\* deleteUser, db = null: filter both arrays
deleteUserLS(st, userId) ==
    LET NotUser(u)  == u.id # userId
        NotOfUser(a) == a.userId # userId
    IN  [st EXCEPT !.users = SelectSeq(st.users, NotUser),
                   !.attendance = SelectSeq(st.attendance, NotOfUser)]

\* deleteUserFS without its second step
deleteUserFSNoCascade(st, userId) ==
    [st EXCEPT !.users = deleteDoc(st.users, userId)]

\* deleteUser, db # null: delete the user document, then every attendance
\* document whose userId field matches
deleteUserFS(st, userId) ==
    LET users == deleteDoc(st.users, userId)
        refs  == queryRefs(st.attendance, "userId", userId)
    IN  [st EXCEPT !.users = users,
                   !.attendance = deleteAll(st.attendance, refs)]

deleteUser(db, st, userId) ==
    IF db = NULL
    THEN Resolved(deleteUserLS(st, userId))
    ELSE Resolved(deleteUserFS(st, userId))

(* ------------------------------ attendance ----------------------------- *)

getAttendances(db, st) ==
    IF db = NULL THEN st.attendance ELSE getDocs(st.attendance)

\* hasPaid defaulting to true when it is omitted
OrTrue(hasPaid) == hasPaid # "false"

\* hasPaid || false
OrFalse(hasPaid) == hasPaid = "true"

\* the record updateAttendance builds from its arguments
AttendanceRecord(eventId, userId, status, hasPaid) ==
    [eventId |-> eventId, userId |-> userId, status |-> status,
     hasPaid |-> OrFalse(hasPaid)]

\* upsertLS without the lookup of the existing record
upsertLSPush(all, record) == Append(all, record)

\* upsertLS with the merged record moved to the end of the array
upsertLSMoveLast(all, record) ==
    LET OtherPair(a) == ~(a.eventId = record.eventId /\ a.userId = record.userId)
    IN  Append(SelectSeq(all, OtherPair), record)

\* updateAttendance, db = null: merge onto the record of the pair, or push
upsertLS(all, record) ==
    LET SamePair(a)   == a.eventId = record.eventId /\ a.userId = record.userId
        existingIndex == FindIndex(all, { x \in Range(all) : SamePair(x) })
    IN  IF existingIndex >= 1
        THEN [all EXCEPT ![existingIndex] = Spread(all[existingIndex], record)]
        ELSE Append(all, record)

\* `${eventId}_${userId}`
docId(eventId, userId) == eventId \o "_" \o userId

\* updateAttendance, db # null: merge into the document with the composite id
upsertFS(col, record) ==
    setDocMerge(col, docId(record.eventId, record.userId), record)

updateAttendance(db, st, eventId, userId, status, hasPaid) ==
    LET record == AttendanceRecord(eventId, userId, status, hasPaid)
    IN  IF db = NULL
        THEN Resolved([st EXCEPT !.attendance = upsertLS(st.attendance, record)])
        ELSE Resolved([st EXCEPT !.attendance = upsertFS(st.attendance, record)])

(* -------------------------------- events ------------------------------- *)

getRawEvents(db, st) ==
    IF db = NULL THEN st.events ELSE getDocs(st.events)

\* 'Neznámý', the name of a participant whose user is not stored
Neznamy == <<"N", "e", "z", "n", "a", "m", "y">>

\* Participant with the name left empty when the user is not stored
ParticipantNoFallback(users, record) ==
    LET IsUser(u) == u.id = record.userId
        i         == FindIndex(users, { x \in Range(users) : IsUser(x) })
    IN  [userId  |-> record.userId,
         name    |-> IF i # 0 THEN users[i].name ELSE <<>>,
         status  |-> record.status,
         hasPaid |-> record.hasPaid]

\* the Participant getEvents builds from one attendance record
Participant(users, record) ==
    LET IsUser(u) == u.id = record.userId
        i         == FindIndex(users, { x \in Range(users) : IsUser(x) })
    IN  [userId  |-> record.userId,
         name    |-> IF i # 0 THEN users[i].name ELSE Neznamy,
         status  |-> record.status,
         hasPaid |-> record.hasPaid]

\* Join as an inner join: a record whose user is not stored yields no participant
JoinInner(rawEvents, attendances, users) ==
    [e \in 1..Len(rawEvents) |->
        LET event           == rawEvents[e]
            Stored(a)       == a.eventId = event.id
                                 /\ \E i \in 1..Len(users) : users[i].id = a.userId
            eventAttendance == SelectSeq(attendances, Stored)
            participants    == [p \in 1..Len(eventAttendance) |->
                                   Participant(users, eventAttendance[p])]
        IN  Spread(event, [participants |-> participants])]

\* the join of getEvents over the three fetched arrays
Join(rawEvents, attendances, users) ==
    [e \in 1..Len(rawEvents) |->
        LET event           == rawEvents[e]
            OfEvent(a)      == a.eventId = event.id
            eventAttendance == SelectSeq(attendances, OfEvent)
            participants    == [p \in 1..Len(eventAttendance) |->
                                   Participant(users, eventAttendance[p])]
        IN  Spread(event, [participants |-> participants])]

getEvents(db, st) ==
    Join(getRawEvents(db, st), getAttendances(db, st), getUsers(db, st))

(* Reads that can fail.  `failed` is the set of Firestore collections whose
   getDocs rejects during the call; with db = null nothing is fetched. *)

Collections == {"users", "events", "attendance"}

\* a settled promise: fulfilled with a value, or rejected
Fulfilled(v) == [ok |-> TRUE, value |-> v]
Rejected == [ok |-> FALSE, value |-> <<>>]

\* getUsers: try { getDocs } catch { return [] }
getUsersCatch(db, st, failed) ==
    IF db = NULL THEN Fulfilled(st.users)
    ELSE IF "users" \in failed THEN Fulfilled(<<>>)
    ELSE Fulfilled(getDocs(st.users))

\* getAttendances with the rejection of getDocs passed on to the caller
getAttendancesNoCatch(db, st, failed) ==
    IF db = NULL THEN Fulfilled(st.attendance)
    ELSE IF "attendance" \in failed THEN Rejected
    ELSE Fulfilled(getDocs(st.attendance))

\* getAttendances: try { getDocs } catch { return [] }
getAttendancesCatch(db, st, failed) ==
    IF db = NULL THEN Fulfilled(st.attendance)
    ELSE IF "attendance" \in failed THEN Fulfilled(<<>>)
    ELSE Fulfilled(getDocs(st.attendance))

\* getRawEvents: try { getDocs } catch { return [] }
getRawEventsCatch(db, st, failed) ==
    IF db = NULL THEN Fulfilled(st.events)
    ELSE IF "events" \in failed THEN Fulfilled(<<>>)
    ELSE Fulfilled(getDocs(st.events))

\* getEvents: Promise.all over the three reads, then the join
getEventsCatch(db, st, failed) ==
    LET rawEvents   == getRawEventsCatch(db, st, failed)
        attendances == getAttendancesCatch(db, st, failed)
        users       == getUsersCatch(db, st, failed)
    IN  IF rawEvents.ok /\ attendances.ok /\ users.ok
        THEN Fulfilled(Join(rawEvents.value, attendances.value, users.value))
        ELSE Rejected

\* getEvents writing the participants it computed onto the stored events
getEventsHydratesStore(db, st) ==
    IF db = NULL
    THEN [st EXCEPT !.events = getEvents(db, st)]
    ELSE [st EXCEPT !.events =
             [d \in DOMAIN st.events |->
                 Spread(st.events[d], [participants |-> <<>>])]]

\* the store a getEvents call leaves: getLS and getDocs only read, and the
\* join builds new objects ({ ...event, participants })
getEventsLeaves(db, st) == st

\* the event stored as it was passed, participants included
EventDataKeep(event) == event

\* const { participants, ...eventData } = event
EventData(event) == [k \in (DOMAIN event) \ {"participants"} |-> event[k]]

\* the events stored after createEvent's write
createEventWrite(db, st, id, event) ==
    LET withId    == IF event.id = NoId THEN [event EXCEPT !.id = id] ELSE event
        eventData == EventData(withId)
    IN  IF db = NULL
        THEN [st EXCEPT !.events = Append(st.events, eventData)]
        ELSE [st EXCEPT !.events = setDoc(st.events, withId.id, eventData)]

\* createEvent returning the list as it was read before the write
createEventStale(db, st, id, event) ==
    ResolvedWith(createEventWrite(db, st, id, event), getEvents(db, st))

\* id is the value generateId() returns when event.id is absent
createEvent(db, st, id, event) ==
    LET written == createEventWrite(db, st, id, event)
    IN  ResolvedWith(written, getEvents(db, written))

\* the events stored after updateEvent's write
updateEventWrite(db, st, updatedEvent) ==
    LET eventData  == EventData(updatedEvent)
        IsEvent(e) == e.id = updatedEvent.id
    IN  IF db = NULL
        THEN LET idx == FindIndex(st.events, { x \in Range(st.events) : IsEvent(x) })
             IN  IF idx # 0
                 THEN [st EXCEPT !.events =
                          [st.events EXCEPT ![idx] = Spread(st.events[idx], eventData)]]
                 ELSE st
        ELSE [st EXCEPT !.events =
                 setDocMerge(st.events, updatedEvent.id, eventData)]

updateEvent(db, st, updatedEvent) ==
    LET written == updateEventWrite(db, st, updatedEvent)
    IN  ResolvedWith(written, getEvents(db, written))

\* deleteEventLS without the attendance cleanup
deleteEventLSNoCleanup(st, id) ==
    LET NotEvent(e) == e.id # id
    IN  [st EXCEPT !.events = SelectSeq(st.events, NotEvent)]

\* deleteEvent, db = null: filter both arrays
deleteEventLS(st, id) ==
    LET NotEvent(e)   == e.id # id
        NotOfEvent(a) == a.eventId # id
    IN  [st EXCEPT !.events = SelectSeq(st.events, NotEvent),
                   !.attendance = SelectSeq(st.attendance, NotOfEvent)]

\* deleteEvent, db # null: delete the event document, then every attendance
\* document whose eventId field matches
deleteEventFS(st, id) ==
    LET events == deleteDoc(st.events, id)
        refs   == queryRefs(st.attendance, "eventId", id)
    IN  [st EXCEPT !.events = events,
                   !.attendance = deleteAll(st.attendance, refs)]

deleteEvent(db, st, id) ==
    LET written == IF db = NULL THEN deleteEventLS(st, id) ELSE deleteEventFS(st, id)
    IN  ResolvedWith(written, getEvents(db, written))

(* ------------------------- dates (JavaScript, date-fns) ---------------- *)
(* A Date is an instant, counted in hours since the epoch (UTC).  A date     *)
(* string "YYYY-MM-DD" is the number of its calendar day.  tz is the offset  *)
(* of the browser's time zone from UTC in hours.                             *)

HoursPerDay == 24

\* new Date("YYYY-MM-DD"): a date-only string is read as midnight UTC
NewDate(date) == date * HoursPerDay

\* the local calendar day an instant falls on (startOfDay)
LocalDay(instant, tz) == (instant + tz) \div HoursPerDay

\* differenceInCalendarDays(dateLeft, dateRight)
differenceInCalendarDays(dateLeft, dateRight, tz) ==
    LocalDay(dateLeft, tz) - LocalDay(dateRight, tz)

\* isSameDay(dateLeft, dateRight)
isSameDay(dateLeft, dateRight, tz) ==
    LocalDay(dateLeft, tz) = LocalDay(dateRight, tz)

(* ------------------------------ App (App.tsx) -------------------------- *)
(* An event of the client's list is                                         *)
(*   [id, date, time, totalCost, accountNumber, participants]               *)
(* with time the hour of "HH:mm" and participants a sequence of             *)
(*   [userId, status, hasPaid].                                             *)

\* Math.floor(a / b) for b > 0
FloorOfQuotient(a, b) == a \div b

\* Math.ceil(a / b) for b > 0
CeilOfQuotient(a, b) == -((-a) \div b)

\* the participants with status 'joined'
Joined(participants) ==
    LET IsJoined(p) == p.status = "joined"
    IN  SelectSeq(participants, IsJoined)

\* costPerPerson with Math.round in the place of Math.ceil
App_costPerPersonRounded(event) ==
    LET joinedCount == Len(Joined(event.participants))
    IN  IF joinedCount > 0
        THEN (2 * event.totalCost + joinedCount) \div (2 * joinedCount)
        ELSE 0

\* costPerPerson of the debt effect
App_costPerPerson(event) ==
    LET joinedCount == Len(Joined(event.participants))
    IN  IF joinedCount > 0 THEN CeilOfQuotient(event.totalCost, joinedCount) ELSE 0

\* event.participants.find(p => p.userId === currentUser.id), as a set
myParticipation(event, currentUser) ==
    LET ps == event.participants
        i  == FindIndex(ps, { p \in Range(ps) : p.userId = currentUser })
    IN  IF i = 0 THEN {} ELSE {ps[i]}

\* isOverdue of the debt effect
IsOverdue(event, now, tz) ==
    differenceInCalendarDays(now, NewDate(event.date), tz) > 1

\* does the debt effect push a DebtItem for event
Owes(event, currentUser, now, tz) ==
    /\ IsOverdue(event, now, tz)
    /\ \E p \in myParticipation(event, currentUser) :
           p.status = "joined" /\ ~p.hasPaid

\* the DebtItem pushed for event
DebtItem(event, now, tz) ==
    [event       |-> event,
     amount      |-> App_costPerPerson(event),
     daysOverdue |-> differenceInCalendarDays(now, NewDate(event.date), tz)]

RECURSIVE DebtsUnshift(_, _, _, _)
\* the debt effect with debts.unshift in place of debts.push
DebtsUnshift(events, currentUser, now, tz) ==
    IF events = <<>> THEN <<>>
    ELSE DebtsUnshift(Tail(events), currentUser, now, tz)
         \o (IF Owes(Head(events), currentUser, now, tz)
             THEN << DebtItem(Head(events), now, tz) >> ELSE <<>>)

RECURSIVE Debts(_, _, _, _)
\* events.forEach(...) of the debt effect
Debts(events, currentUser, now, tz) ==
    IF events = <<>> THEN <<>>
    ELSE (IF Owes(Head(events), currentUser, now, tz)
          THEN << DebtItem(Head(events), now, tz) >> ELSE <<>>)
         \o Debts(Tail(events), currentUser, now, tz)

\* the effect on [currentUser, events]: the new unpaidDebts
DebtEffect(currentUser, events, now, tz) ==
    IF currentUser = NULL \/ Len(events) = 0
    THEN <<>>
    ELSE Debts(events, currentUser, now, tz)

RECURSIVE totalDebt(_)
\* debts.reduce((sum, item) => sum + item.amount, 0)
totalDebt(debts) ==
    IF debts = <<>> THEN 0
    ELSE totalDebt(SubSeq(debts, 1, Len(debts) - 1)) + debts[Len(debts)].amount

\* UnpaidBanner: what it shows, as a set, empty for null
UnpaidBanner(debts) ==
    IF Len(debts) = 0 THEN {}
    ELSE { [count |-> Len(debts), totalDebt |-> totalDebt(debts)] }

\* const selectedEvent = events.find(e => e.id === selectedEventId), as a set
selectedEvent(events, selectedEventId) ==
    LET i == FindIndex(events, { e \in Range(events) : e.id = selectedEventId })
    IN  IF i = 0 THEN {} ELSE {events[i]}

RECURSIVE SortByDate(_)
\* Array.prototype.sort by date ascending (stable insertion)
SortByDate(events) ==
    IF events = <<>> THEN <<>>
    ELSE LET rest     == SortByDate(Tail(events))
             e        == Head(events)
             Before(x) == x.date < e.date
             NotBefore(x) == ~(x.date < e.date)
         IN  SelectSeq(rest, Before) \o <<e>> \o SelectSeq(rest, NotBefore)

\* displayedEvents: the upcoming events when no date is selected, the
\* events of the selected day otherwise; selectedDate is a set, empty for null
displayedEvents(events, selectedDate, now, tz) ==
    IF selectedDate = {}
    THEN LET today       == LocalDay(now, tz) * HoursPerDay - tz
             Upcoming(e) == NewDate(e.date) >= today
         IN  SortByDate(SelectSeq(events, Upcoming))
    ELSE LET OnDay(e) == \A d \in selectedDate : isSameDay(NewDate(e.date), d, tz)
         IN  SelectSeq(events, OnDay)

(* ----------------------- EventDetail (EventDetail.tsx) ----------------- *)
(* Strings are sequences of characters.                                     *)

Digits == <<"0", "1", "2", "3", "4", "5", "6", "7", "8", "9">>

\* /^\d+$/ with the length between min and max
IsDigits(s, min, max) ==
    /\ Len(s) >= min
    /\ Len(s) <= max
    /\ \A i \in 1..Len(s) : s[i] \in Range(Digits)

\* parseInt(c, 10) of a digit character
parseInt(c) == (CHOOSE i \in 1..Len(Digits) : Digits[i] = c) - 1

RECURSIVE toString(_)
\* Number.prototype.toString of a natural number
toString(n) ==
    IF n < 10 THEN << Digits[n + 1] >>
    ELSE toString(n \div 10) \o << Digits[(n % 10) + 1] >>

\* padStart that leaves the string as it is
padStartNone(s, targetLength) == s

RECURSIVE padStart(_, _)
\* String.prototype.padStart(targetLength, '0')
padStart(s, targetLength) ==
    IF Len(s) >= targetLength THEN s ELSE padStart(<<"0">> \o s, targetLength)

\* accountStr.replace(/\s/g, '')
RemoveWhitespace(s) ==
    LET NotSpace(c) == c \notin {" ", "\t", "\n"}
    IN  SelectSeq(s, NotSpace)

\* /^CZ\d{22}$/.test(cleanStr)
IsCZIBAN(cleanStr) ==
    /\ Len(cleanStr) = 24
    /\ SubSeq(cleanStr, 1, 2) = <<"C", "Z">>
    /\ IsDigits(SubSeq(cleanStr, 3, 24), 22, 22)

\* cleanStr.match(/^(?:(\d{1,6})-)?(\d{1,10})\/(\d{4})$/): the set of
\* matches (at most one), each with its groups; an absent prefix group is ''
Match(cleanStr) ==
    LET n            == Len(cleanStr)
        \* the groups when '-' is at i (0: no prefix part) and '/' at j
        Groups(i, j) == [prefix   |-> IF i = 0 THEN <<>> ELSE SubSeq(cleanStr, 1, i - 1),
                         number   |-> SubSeq(cleanStr, i + 1, j - 1),
                         bankCode |-> SubSeq(cleanStr, j + 1, n)]
        Fits(i, j)   == /\ i < j
                        /\ cleanStr[j] = "/"
                        /\ i # 0 => (cleanStr[i] = "-" /\ IsDigits(Groups(i, j).prefix, 1, 6))
                        /\ IsDigits(Groups(i, j).number, 1, 10)
                        /\ IsDigits(Groups(i, j).bankCode, 4, 4)
    IN  { Groups(ij[1], ij[2]) :
              ij \in { x \in (0..n) \X (1..n) : Fits(x[1], x[2]) } }

RECURSIVE Mod97(_, _)
\* the loop remainder = (remainder * 10 + parseInt(numericString[i])) % 97
Mod97(numericString, remainder) ==
    IF numericString = <<>> THEN remainder
    ELSE Mod97(Tail(numericString),
               (remainder * 10 + parseInt(Head(numericString))) % 97)

\* 97 - remainder in place of 98 - remainder
checkDigits97(bban) ==
    padStart(toString(97 - Mod97(bban \o <<"1", "2", "3", "5", "0", "0">>, 0)), 2)

\* (98 - remainder).toString().padStart(2, '0')
checkDigits(bban) ==
    padStart(toString(98 - Mod97(bban \o <<"1", "2", "3", "5", "0", "0">>, 0)), 2)

\* bankCode + prefix + number, each padded
BBAN(m) ==
    padStart(m.bankCode, 4) \o padStart(m.prefix, 6) \o padStart(m.number, 10)

\* convertToCZIBAN: the set holding the returned string, empty for null
convertToCZIBAN(accountStr) ==
    LET cleanStr == RemoveWhitespace(accountStr)
    IN  IF accountStr = <<>> THEN {}
        ELSE IF IsCZIBAN(cleanStr) THEN {cleanStr}
        ELSE { <<"C", "Z">> \o checkDigits(BBAN(m)) \o BBAN(m) : m \in Match(cleanStr) }

\* costPerPerson of EventDetail
EventDetail_costPerPerson(event) ==
    LET countJoined == Len(Joined(event.participants))
    IN  IF countJoined > 0 THEN CeilOfQuotient(event.totalCost, countJoined) ELSE 0

\* what EventDetail derives from its event prop when it renders
EventDetail(event) ==
    [event         |-> event,
     costPerPerson |-> EventDetail_costPerPerson(event),
     iban          |-> convertToCZIBAN(event.accountNumber)]

(* ------------------------------ the system ----------------------------- *)

EmptyLS == [users |-> <<>>, events |-> <<>>, attendance |-> <<>>]
EmptyFS == [users |-> EmptyCollection, events |-> EmptyCollection,
            attendance |-> EmptyCollection]

\* the record of a call: its name and arguments, whether it resolved in each
\* deployment (okL: db = null, okR: db # null), and what its target looked
\* like in each deployment before the call (preL, preR: see the ...Pre
\* operators; refsL, refsR: how many attendance records referred to the id
\* a delete was given; failed: the collections whose read failed during a
\* getEvents call; title: the title createEvent was given; parts: the length
\* of the participants list the event passed to createEvent or updateEvent
\* carried; returnedL, returnedR: the list createEvent, updateEvent or
\* deleteEvent returned)
NoCall == [op |-> "none", eventId |-> "-", userId |-> "-", name |-> <<>>,
           status |-> "-", hasPaid |-> "-",
           okL |-> TRUE, okR |-> TRUE, preL |-> "-", preR |-> "-",
           refsL |-> 0, refsR |-> 0, failed |-> {},
           title |-> "-", parts |-> 0, returnedL |-> <<>>, returnedR |-> <<>>]

Call(op, fields, L, R, preL, preR) ==
    Spread(Spread(NoCall, fields),
           [op |-> op, okL |-> L.ok, okR |-> R.ok, preL |-> preL, preR |-> preR])

\* App before it is mounted: useState initial values; mounted, tz and now
\* are the browser's: whether App has rendered, its time zone, and the
\* clock reading (new Date()) of the last debt effect; op is the handler
\* that ran last and clicked the calendar day it was given
InitialApp ==
    [mounted         |-> FALSE,
     tz              |-> 0,
     now             |-> 0,
     op              |-> "none",
     clicked         |-> 0,
     currentUser     |-> NULL,
     events          |-> <<>>,
     selectedDate    |-> {},
     selectedEventId |-> NULL,
     unpaidDebts     |-> <<>>]

\* The remote deleteUser / deleteEvent call in progress: op and id, the
\* attendance documents whose deleteDoc is in flight (pending), and the state
\* of the promise the caller holds (settled: "none" before any call,
\* "pending", "fulfilled" or "rejected")
NoTask == [op |-> "none", id |-> "-", pending |-> {}, settled |-> "none"]

\* The loading flags and the handler in flight: isLoading is App's flag
\* (false by useState), detailLoading EventDetail's; handler is the handler
\* suspended at a storage call ("none": no handler is running) and awaiting
\* the storage call it awaits; eventToDelete is App's state of that name;
\* newEvent holds the argument of a handleCreateEvent in flight
InitialUi ==
    [isLoading     |-> FALSE,
     detailLoading |-> FALSE,
     handler       |-> "none",
     awaiting      |-> "none",
     eventToDelete |-> NULL,
     newEvent      |-> {}]

\* A createUser call of a caller: pc is "idle" (no call), "awaiting" (the
\* call is suspended at `await getUsers()`), "resolved" or "rejected"; usersL
\* and usersR are what getUsers read in each deployment; overlapped tells
\* that another call was suspended at its await at the same time
NoCreate == [pc |-> "idle", name |-> <<>>, usersL |-> <<>>, usersR |-> <<>>,
             overlapped |-> FALSE]

Init ==
    /\ ls = EmptyLS
    /\ fs = EmptyFS
    /\ last = NoCall
    /\ app = InitialApp
    /\ detail = {}
    /\ task = NoTask
    /\ calls = [k \in Callers |-> NoCreate]
    /\ ui = InitialUi

\* the size bounds on a pair of stores
Within(l, f) ==
    /\ Len(l.users) + Len(l.events) + Len(l.attendance) <= MaxRecords
    /\ Cardinality(DOMAIN f.users) + Cardinality(DOMAIN f.events)
           + Cardinality(DOMAIN f.attendance) <= MaxRecords

\* every id some stored record carries or refers to, in either deployment
IdsOf(db, st) ==
    { u.id : u \in Range(getUsers(db, st)) }
        \cup { e.id : e \in Range(getRawEvents(db, st)) }
        \cup { a.userId : a \in Range(getAttendances(db, st)) }
        \cup { a.eventId : a \in Range(getAttendances(db, st)) }

InUse == IdsOf(NULL, ls) \cup IdsOf(FIRESTORE, fs)

\* what a call finds before it runs
UserPre(db, st, userId) ==
    IF getUser(db, st, userId) # {} THEN "found" ELSE "none"

EventPre(db, st, id) ==
    IF \E e \in Range(getRawEvents(db, st)) : e.id = id THEN "found" ELSE "none"

AttendancePre(db, st, eventId, userId) ==
    LET recs == { a \in Range(getAttendances(db, st)) :
                      a.eventId = eventId /\ a.userId = userId }
    IN  IF recs = {} THEN "none"
        ELSE IF \E a \in recs : a.hasPaid THEN "paid" ELSE "unpaid"

\* how many attendance records carry value in field
RefsPre(db, st, field, value) ==
    LET att == getAttendances(db, st)
    IN  Cardinality({ i \in 1..Len(att) : att[i][field] = value })

\* is there a stored user whose name matches after trimming and lower-casing
NamePre(db, st, name) ==
    IF \E u \in Range(getUsers(db, st)) :
           ToLowerCase(Trim(u.name)) = ToLowerCase(Trim(name))
    THEN "match" ELSE "none"

CreateUser(name) ==
    \E id \in UserGenIds \ InUse :
        LET L == createUser(NULL, ls, id, name)
            R == createUser(FIRESTORE, fs, id, name)
        IN  /\ Within(L.store, R.store)
            /\ ls' = L.store
            /\ fs' = R.store
            /\ UNCHANGED <<app, detail, task, calls, ui>>
            /\ last' = Call("createUser",
                            [name |-> name,
                             userId |-> IF L.ok \/ R.ok THEN id ELSE "-"],
                            L, R, NamePre(NULL, ls, name), NamePre(FIRESTORE, fs, name))

UpdateUser(userId, updates) ==
    LET L == updateUser(NULL, ls, userId, updates)
        R == updateUser(FIRESTORE, fs, userId, updates)
    IN  /\ Within(L.store, R.store)
        /\ ls' = L.store
        /\ fs' = R.store
        /\ UNCHANGED <<app, detail, task, calls, ui>>
        /\ last' = Call("updateUser", [userId |-> userId],
                        L, R, UserPre(NULL, ls, userId), UserPre(FIRESTORE, fs, userId))

DeleteUser(userId) ==
    LET L == deleteUser(NULL, ls, userId)
        R == deleteUser(FIRESTORE, fs, userId)
    IN  /\ Within(L.store, R.store)
        /\ ls' = L.store
        /\ fs' = R.store
        /\ UNCHANGED <<app, detail, task, calls, ui>>
        /\ last' = Call("deleteUser",
                        [userId |-> userId,
                         refsL |-> RefsPre(NULL, ls, "userId", userId),
                         refsR |-> RefsPre(FIRESTORE, fs, "userId", userId)],
                        L, R, UserPre(NULL, ls, userId), UserPre(FIRESTORE, fs, userId))

UpdateAttendance(eventId, userId, status, hasPaid) ==
    LET L == updateAttendance(NULL, ls, eventId, userId, status, hasPaid)
        R == updateAttendance(FIRESTORE, fs, eventId, userId, status, hasPaid)
    IN  /\ Within(L.store, R.store)
        /\ ls' = L.store
        /\ fs' = R.store
        /\ UNCHANGED <<app, detail, task, calls, ui>>
        /\ last' = Call("updateAttendance",
                        [eventId |-> eventId, userId |-> userId,
                         status |-> status, hasPaid |-> hasPaid],
                        L, R, AttendancePre(NULL, ls, eventId, userId),
                        AttendancePre(FIRESTORE, fs, eventId, userId))

CreateEvent(id, title, participants) ==
    \E gen \in EventGenIds \ InUse :
        LET event == [id |-> id, title |-> title, participants |-> participants]
            given == IF id = NoId THEN gen ELSE id
            L     == createEvent(NULL, ls, gen, event)
            R     == createEvent(FIRESTORE, fs, gen, event)
        IN  /\ Within(L.store, R.store)
            /\ ls' = L.store
            /\ fs' = R.store
            /\ UNCHANGED <<app, detail, task, calls, ui>>
            /\ last' = Call("createEvent",
                            [eventId |-> given, title |-> title,
                             parts |-> Len(participants),
                             returnedL |-> L.value, returnedR |-> R.value],
                            L, R, EventPre(NULL, ls, given), EventPre(FIRESTORE, fs, given))

UpdateEvent(id, title, participants) ==
    LET event == [id |-> id, title |-> title, participants |-> participants]
        L     == updateEvent(NULL, ls, event)
        R     == updateEvent(FIRESTORE, fs, event)
    IN  /\ Within(L.store, R.store)
        /\ ls' = L.store
        /\ fs' = R.store
        /\ UNCHANGED <<app, detail, task, calls, ui>>
        /\ last' = Call("updateEvent",
                        [eventId |-> id, parts |-> Len(participants),
                         returnedL |-> L.value, returnedR |-> R.value],
                        L, R, EventPre(NULL, ls, id), EventPre(FIRESTORE, fs, id))

DeleteEvent(id) ==
    LET L == deleteEvent(NULL, ls, id)
        R == deleteEvent(FIRESTORE, fs, id)
    IN  /\ Within(L.store, R.store)
        /\ ls' = L.store
        /\ fs' = R.store
        /\ UNCHANGED <<app, detail, task, calls, ui>>
        /\ last' = Call("deleteEvent",
                        [eventId |-> id,
                         refsL |-> RefsPre(NULL, ls, "eventId", id),
                         refsR |-> RefsPre(FIRESTORE, fs, "eventId", id),
                         returnedL |-> L.value, returnedR |-> R.value],
                        L, R, EventPre(NULL, ls, id), EventPre(FIRESTORE, fs, id))

\* a getEvents call during which the reads of `failed` fail
GetEvents(failed) ==
    LET L == getEventsCatch(NULL, ls, failed)
        R == getEventsCatch(FIRESTORE, fs, failed)
    IN  /\ ls' = getEventsLeaves(NULL, ls)
        /\ fs' = getEventsLeaves(FIRESTORE, fs)
        /\ UNCHANGED <<app, detail, task, calls, ui>>
        /\ last' = Call("getEvents", [failed |-> failed], L, R, "-", "-")

(* App.tsx.  Every handler ends with the render it causes: the debt effect
   when currentUser or events changed, and EventDetail for the selected
   event. *)

\* EventDetail as rendered for the selected event, if there is one
Render(a) == { EventDetail(e) : e \in selectedEvent(a.events, a.selectedEventId) }

\* first render: the mount effect runs loadEvents, which resolves with data
Mount(tz, now, data) ==
    /\ ~app.mounted
    /\ app' = [app EXCEPT !.mounted = TRUE, !.tz = tz, !.now = now,
                          !.op = "mount", !.events = data,
                          !.unpaidDebts = DebtEffect(NULL, data, now, tz)]
    /\ detail' = Render(app')
    /\ UNCHANGED <<ls, fs, last, task, calls, ui>>

\* handleLogin: loadEvents resolves with data
HandleLogin(user, now, data) ==
    /\ app.mounted
    /\ app.currentUser = NULL
    /\ app' = [app EXCEPT !.op = "handleLogin", !.now = now,
                          !.currentUser = user, !.events = data,
                          !.selectedDate = {},
                          !.unpaidDebts = DebtEffect(user, data, now, app.tz)]
    /\ detail' = Render(app')
    /\ UNCHANGED <<ls, fs, last, task, calls, ui>>

HandleLogout ==
    /\ app.mounted
    /\ app.currentUser # NULL
    /\ app' = [app EXCEPT !.op = "handleLogout", !.currentUser = NULL,
                          !.selectedEventId = NULL, !.unpaidDebts = <<>>]
    /\ detail' = {}
    /\ UNCHANGED <<ls, fs, last, task, calls, ui>>

\* handleDateSelect(date), date being local midnight of the clicked day
HandleDateSelect(day) ==
    LET date == day * HoursPerDay - app.tz
        sel  == selectedEvent(app.events, app.selectedEventId)
    IN  /\ app.mounted
        /\ app.currentUser # NULL
        /\ app' = [app EXCEPT
                      !.op = "handleDateSelect",
                      !.clicked = day,
                      !.selectedDate = {date},
                      !.selectedEventId =
                          IF \E e \in sel : ~isSameDay(NewDate(e.date), date, app.tz)
                          THEN NULL ELSE @]
        /\ detail' = Render(app')
        /\ UNCHANGED <<ls, fs, last, task, calls, ui>>

HandleShowUpcoming ==
    /\ app.mounted
    /\ app.currentUser # NULL
    /\ app' = [app EXCEPT !.op = "handleShowUpcoming", !.selectedDate = {},
                          !.selectedEventId = NULL]
    /\ detail' = {}
    /\ UNCHANGED <<ls, fs, last, task, calls, ui>>

\* onClick of an event card of the displayed list
SelectEvent(id) ==
    /\ app.mounted
    /\ app.currentUser # NULL
    /\ \E e \in Range(displayedEvents(app.events, app.selectedDate, app.now, app.tz)) :
           e.id = id
    /\ app' = [app EXCEPT !.op = "selectEvent", !.selectedEventId = id]
    /\ detail' = Render(app')
    /\ UNCHANGED <<ls, fs, last, task, calls, ui>>

(* deleteUser and deleteEvent with db # null, await by await.  The field of
   the attendance query is userId for deleteUser and eventId for
   deleteEvent. *)

CascadeField(op) == IF op = "deleteUser" THEN "userId" ELSE "eventId"

\* the call up to the creation of deletePromises: the entity document is
\* deleted, the query has resolved and one deleteDoc per matching
\* attendance document is in flight; Promise.all of no promise is fulfilled
CascadeStart(op, id) ==
    LET refs == queryRefs(fs.attendance, CascadeField(op), id)
    IN  /\ task.settled # "pending"
        /\ task.pending = {}
        /\ fs' = IF op = "deleteUser"
                 THEN [fs EXCEPT !.users = deleteDoc(fs.users, id)]
                 ELSE [fs EXCEPT !.events = deleteDoc(fs.events, id)]
        /\ task' = [op |-> op, id |-> id, pending |-> refs,
                    settled |-> IF refs = {} THEN "fulfilled" ELSE "pending"]
        /\ UNCHANGED <<ls, last, app, detail, calls, ui>>

\* the awaited deleteDoc of the entity document rejects: the call rejects
\* before any attendance delete is issued
CascadeStartFails(op, id) ==
    /\ task.settled # "pending"
    /\ task.pending = {}
    /\ task' = [op |-> op, id |-> id, pending |-> {}, settled |-> "rejected"]
    /\ UNCHANGED <<ls, fs, last, app, detail, calls, ui>>

\* one deleteDoc(d.ref) completes; Promise.all is fulfilled with the last
SubDeleteCompletes(d) ==
    /\ d \in task.pending
    /\ fs' = [fs EXCEPT !.attendance = deleteDoc(fs.attendance, d)]
    /\ task' = [task EXCEPT
                   !.pending = @ \ {d},
                   !.settled = IF @ = "pending" /\ task.pending = {d}
                               THEN "fulfilled" ELSE @]
    /\ UNCHANGED <<ls, last, app, detail, calls, ui>>

\* one deleteDoc(d.ref) rejects; Promise.all rejects with the first rejection
SubDeleteFails(d) ==
    /\ d \in task.pending
    /\ task' = [task EXCEPT
                   !.pending = @ \ {d},
                   !.settled = IF @ = "pending" THEN "rejected" ELSE @]
    /\ UNCHANGED <<ls, fs, last, app, detail, calls, ui>>

(* createUser await by await, in both deployments. *)

\* caller k calls createUser(name): getUsers reads, the call suspends
CreateUserBegin(k, name) ==
    LET others == \E j \in Callers \ {k} : calls[j].pc = "awaiting"
    IN  /\ calls[k].pc = "idle"
        /\ calls' = [j \in Callers |->
                        IF j = k
                        THEN [pc |-> "awaiting", name |-> name,
                              usersL |-> getUsers(NULL, ls),
                              usersR |-> getUsers(FIRESTORE, fs),
                              overlapped |-> others]
                        ELSE IF calls[j].pc = "awaiting"
                             THEN [calls[j] EXCEPT !.overlapped = TRUE]
                             ELSE calls[j]]
        /\ UNCHANGED <<ls, fs, last, app, detail, task, ui>>

\* the call of caller k resumes after its await and runs to its end
CreateUserResume(k) ==
    \E id \in UserGenIds \ InUse :
        LET L == createUserAfterRead(NULL, ls, calls[k].usersL, id, calls[k].name)
            R == createUserAfterRead(FIRESTORE, fs, calls[k].usersR, id, calls[k].name)
        IN  /\ calls[k].pc = "awaiting"
            /\ Within(L.store, R.store)
            /\ ls' = L.store
            /\ fs' = R.store
            /\ calls' = [calls EXCEPT ![k].pc =
                             IF L.ok /\ R.ok THEN "resolved" ELSE "rejected"]
            /\ UNCHANGED <<last, app, detail, task, ui>>

\* the caller has seen the outcome of its call
CreateUserReturns(k) ==
    /\ calls[k].pc \in {"resolved", "rejected"}
    /\ calls' = [calls EXCEPT ![k] = NoCreate]
    /\ UNCHANGED <<ls, fs, last, app, detail, task, ui>>

(* App.tsx and EventDetail.tsx, await by await.  One handler runs at a time:
   App's overlay covers the page while isLoading, EventDetail's overlay and
   disabled buttons cover the detail view while its isLoading. *)

\* the flags after a render of App in state a: EventDetail's state is
\* discarded when no event is selected
Rendered(a, u) ==
    IF Render(a) = {} THEN [u EXCEPT !.detailLoading = FALSE] ELSE u

\* the handler ends: by return, or by the exception of a rejected await
Ended(u) == [u EXCEPT !.handler = "none", !.awaiting = "none", !.newEvent = {}]

\* loadEvents up to `await storage.getEvents()`, called by the mount effect
\* or by handleLogin(user) after setCurrentUser(user)
LoadEventsStart(caller, user, now) ==
    /\ ui.handler = "none"
    /\ ~ui.isLoading
    /\ IF caller = "mount" THEN ~app.mounted
                           ELSE app.mounted /\ app.currentUser = NULL
    /\ app' = IF caller = "mount"
              THEN [app EXCEPT !.mounted = TRUE, !.now = now, !.op = "mount"]
              ELSE [app EXCEPT !.op = "handleLogin", !.now = now,
                               !.currentUser = user,
                               !.unpaidDebts = DebtEffect(user, app.events, now, app.tz)]
    /\ detail' = Render(app')
    /\ ui' = Rendered(app', [ui EXCEPT !.isLoading = TRUE, !.handler = caller,
                                       !.awaiting = "getEvents"])
    /\ UNCHANGED <<ls, fs, last, task, calls>>

\* handleCreateEvent(newEvent) up to `await storage.createEvent(newEvent)`
HandleCreateEventStart(newEvent) ==
    /\ ui.handler = "none"
    /\ ~ui.isLoading
    /\ app.currentUser # NULL
    /\ ui' = [ui EXCEPT !.isLoading = TRUE, !.handler = "handleCreateEvent",
                        !.awaiting = "createEvent", !.newEvent = {newEvent}]
    /\ UNCHANGED <<ls, fs, last, app, detail, task, calls>>

\* handleRequestDelete(id), from the detail view of the selected event
HandleRequestDelete ==
    /\ ui.handler = "none"
    /\ ~ui.isLoading
    /\ ~ui.detailLoading
    /\ ui.eventToDelete = NULL
    /\ \E v \in detail : ui' = [ui EXCEPT !.eventToDelete = v.event.id]
    /\ UNCHANGED <<ls, fs, last, app, detail, task, calls>>

\* confirmDelete up to `await storage.deleteEvent(eventToDelete)`
ConfirmDeleteStart ==
    /\ ui.handler = "none"
    /\ ~ui.isLoading
    /\ ui.eventToDelete # NULL
    /\ ui' = [ui EXCEPT !.isLoading = TRUE, !.handler = "confirmDelete",
                        !.awaiting = "deleteEvent"]
    /\ UNCHANGED <<ls, fs, last, app, detail, task, calls>>

\* handleStatusChange(userId, status) of EventDetail up to
\* `await storage.updateAttendance(...)`
HandleStatusChangeStart ==
    /\ ui.handler = "none"
    /\ ~ui.isLoading
    /\ ~ui.detailLoading
    /\ detail # {}
    /\ ui' = [ui EXCEPT !.detailLoading = TRUE, !.handler = "handleStatusChange",
                        !.awaiting = "updateAttendance"]
    /\ UNCHANGED <<ls, fs, last, app, detail, task, calls>>

\* handlePaymentToggle(userId, currentStatus) of EventDetail, for a userId
\* among the event's participants, up to `await storage.updateAttendance(...)`
HandlePaymentToggleStart(userId) ==
    /\ ui.handler = "none"
    /\ ~ui.isLoading
    /\ ~ui.detailLoading
    /\ \E v \in detail : \E p \in Range(v.event.participants) : p.userId = userId
    /\ ui' = [ui EXCEPT !.detailLoading = TRUE, !.handler = "handlePaymentToggle",
                        !.awaiting = "updateAttendance"]
    /\ UNCHANGED <<ls, fs, last, app, detail, task, calls>>

\* the awaited storage call resolves (with the list data, when it returns
\* one) and the handler runs on to its next await or to its end
StorageResolves(data) ==
    /\ ui.awaiting # "none"
    /\ CASE ui.handler \in {"mount", "handleLogin"} ->
               /\ app' = [app EXCEPT
                             !.events = data,
                             !.selectedDate =
                                 IF ui.handler = "handleLogin" THEN {} ELSE @,
                             !.unpaidDebts =
                                 DebtEffect(app.currentUser, data, app.now, app.tz)]
               /\ ui' = Rendered(app', Ended([ui EXCEPT !.isLoading = FALSE]))
          [] ui.handler = "handleCreateEvent" ->
               /\ \E newEvent \in ui.newEvent :
                      app' = [app EXCEPT
                                 !.op = "handleCreateEvent",
                                 !.events = data,
                                 !.selectedEventId = newEvent.id,
                                 !.selectedDate =
                                     IF @ = {} THEN {} ELSE {NewDate(newEvent.date)},
                                 !.unpaidDebts =
                                     DebtEffect(app.currentUser, data, app.now, app.tz)]
               /\ ui' = Rendered(app', Ended([ui EXCEPT !.isLoading = FALSE]))
          [] ui.handler = "confirmDelete" ->
               /\ app' = [app EXCEPT
                             !.op = "confirmDelete",
                             !.events = data,
                             !.selectedEventId =
                                 IF @ = ui.eventToDelete THEN NULL ELSE @,
                             !.unpaidDebts =
                                 DebtEffect(app.currentUser, data, app.now, app.tz)]
               /\ ui' = Rendered(app', Ended([ui EXCEPT !.isLoading = FALSE,
                                                        !.eventToDelete = NULL]))
          [] ui.handler \in {"handleStatusChange", "handlePaymentToggle"}
                 /\ ui.awaiting = "updateAttendance" ->
               \* refreshEventData: setIsLoading(true), await storage.getEvents()
               /\ data = <<>>
               /\ app' = app
               /\ ui' = [ui EXCEPT !.detailLoading = TRUE, !.awaiting = "getEvents"]
          [] ui.handler \in {"handleStatusChange", "handlePaymentToggle"}
                 /\ ui.awaiting = "getEvents" ->
               \* refreshEventData: onUpdate(refreshed) is not awaited
               /\ app' = app
               /\ ui' = Ended([ui EXCEPT !.detailLoading = FALSE])
    /\ detail' = Render(app')
    /\ UNCHANGED <<ls, fs, last, task, calls>>

\* the awaited storage call rejects: loadEvents catches the rejection and
\* runs its finally block; every other handler ends with the exception
StorageRejects ==
    /\ ui.awaiting # "none"
    /\ IF ui.handler \in {"mount", "handleLogin"}
       THEN /\ app' = [app EXCEPT
                          !.selectedDate =
                              IF ui.handler = "handleLogin" THEN {} ELSE @]
            /\ ui' = Ended([ui EXCEPT !.isLoading = FALSE])
       ELSE /\ app' = app
            /\ ui' = Ended(ui)
    /\ UNCHANGED <<ls, fs, last, detail, task, calls>>

\* EventDetail rendered on its own for an event with account number
\* accountStr (useMemo recomputes iban when event.accountNumber changes)
RenderEventDetail(accountStr) ==
    /\ detail' = { EventDetail([id |-> "e1", date |-> 9, time |-> 18,
                                totalCost |-> 1001, accountNumber |-> accountStr,
                                participants |-> <<>>]) }
    /\ UNCHANGED <<ls, fs, last, app, task, calls, ui>>

NextIban == \E accountStr \in AccountStrings : RenderEventDetail(accountStr)

NextApp ==
    \/ \E tz \in TimeZones, now \in Clock, data \in AppEventLists :
           Mount(tz, now, data)
    \/ \E user \in AppUsers, now \in Clock, data \in AppEventLists :
           HandleLogin(user, now, data)
    \/ HandleLogout
    \/ \E day \in ClickedDays : HandleDateSelect(day)
    \/ HandleShowUpcoming
    \/ \E id \in {"e1", "e2"} : SelectEvent(id)

NextOver(args) ==
    \/ \E name \in args.names : CreateUser(name)
    \/ \E userId \in args.userIds, updates \in args.updates :
           UpdateUser(userId, updates)
    \/ \E userId \in args.userIds : DeleteUser(userId)
    \/ \E pair \in args.attPairs, status \in args.statuses,
          hasPaid \in args.hasPaids :
           UpdateAttendance(pair[1], pair[2], status, hasPaid)
    \/ \E id \in args.newIds, title \in args.titles,
          participants \in args.participants :
           CreateEvent(id, title, participants)
    \/ \E id \in args.eventIds, title \in args.titles,
          participants \in args.participants :
           UpdateEvent(id, title, participants)
    \/ \E id \in args.eventIds : DeleteEvent(id)

Next == NextOver(StoreArgs)
NextAttendance == NextOver(AttendanceArgs)
NextUsers == NextOver(UserArgs)

NextEvents == NextOver(EventArgs)

NextCascade ==
    \/ NextOver(CascadeArgs)
    \/ \E userId \in CascadeArgs.userIds : CascadeStart("deleteUser", userId)
    \/ \E id \in CascadeArgs.eventIds : CascadeStart("deleteEvent", id)
    \/ \E userId \in CascadeArgs.userIds : CascadeStartFails("deleteUser", userId)
    \/ \E id \in CascadeArgs.eventIds : CascadeStartFails("deleteEvent", id)
    \/ \E d \in DOMAIN fs.attendance : SubDeleteCompletes(d)
    \/ \E d \in task.pending : SubDeleteFails(d)

NextConcurrent ==
    \/ \E k \in Callers, name \in CallerNames : CreateUserBegin(k, name)
    \/ \E k \in Callers : CreateUserResume(k)
    \/ \E k \in Callers : CreateUserReturns(k)

\* a pending storage promise settles
Settles ==
    \/ \E data \in LoadedLists : StorageResolves(data)
    \/ StorageRejects

NextLoading ==
    \/ \E caller \in {"mount", "handleLogin"}, user \in AppUsers, now \in Clock :
           LoadEventsStart(caller, user, now)
    \/ \E newEvent \in NewEvents : HandleCreateEventStart(newEvent)
    \/ HandleRequestDelete
    \/ ConfirmDeleteStart
    \/ HandleStatusChangeStart
    \/ \E userId \in AppUsers : HandlePaymentToggleStart(userId)
    \/ \E data \in LoadedLists : StorageResolves(data)
    \/ StorageRejects

NextShare ==
    \/ \E tz \in TimeZones, now \in Clock, data \in ShareEventLists :
           Mount(tz, now, data)
    \/ \E user \in AppUsers, now \in Clock, data \in ShareEventLists :
           HandleLogin(user, now, data)
    \/ HandleLogout

NextReads ==
    \/ NextOver(ReadArgs)
    \/ \E failed \in SUBSET Collections : GetEvents(failed)

\* joins, cascades and the two deployments side by side
Spec == Init /\ [][Next]_vars
\* attendance upserts
SpecAttendance == Init /\ [][NextAttendance]_vars
\* user names
SpecUsers == Init /\ [][NextUsers]_vars

\* event creation, update and deletion
SpecEvents == Init /\ [][NextEvents]_vars

\* the App component: login, calendar, selection, debts
SpecApp == Init /\ [][NextApp]_vars

\* the IBAN shown by the event detail view
SpecIban == Init /\ [][NextIban]_vars

\* remote cascading deletes, await by await
SpecCascade == Init /\ [][NextCascade]_vars

\* createUser calls in flight at the same time
SpecConcurrent == Init /\ [][NextConcurrent]_vars

\* the debt effect over the range of total costs and joined counts
SpecShare == Init /\ [][NextShare]_vars

\* the loading flags: a storage call that is awaited settles
SpecLoading == Init /\ [][NextLoading]_vars /\ WF_vars(Settles)

\* getEvents while reads fail
SpecReads == Init /\ [][NextReads]_vars

(* ----------------------------- observations ---------------------------- *)

Deployments == {NULL, FIRESTORE}

\* the store of a deployment, and the last call's outcome there
Store(db) == IF db = NULL THEN ls ELSE fs
Ok(db) == IF db = NULL THEN last.okL ELSE last.okR
Pre(db) == IF db = NULL THEN last.preL ELSE last.preR
Refs(db) == IF db = NULL THEN last.refsL ELSE last.refsR
Returned(db) == IF db = NULL THEN last.returnedL ELSE last.returnedR

\* the positions of the records of pair (eventId, userId) in att
PairAt(att, eventId, userId) ==
    { i \in 1..Len(att) : att[i].eventId = eventId /\ att[i].userId = userId }

\* the positions of the records of event eventId in att
EventAt(att, eventId) == { i \in 1..Len(att) : att[i].eventId = eventId }

\* the positions of the participants with userId in a participants list
PartAt(participants, userId) ==
    { i \in 1..Len(participants) : participants[i].userId = userId }

StoreNext(db) == IF db = NULL THEN ls' ELSE fs'

TypeOK ==
    /\ Within(ls, fs)
    /\ \A d \in DOMAIN fs.users : fs.users[d].id \in UserGenIds

(* -------------------------------- claims ------------------------------- *)

\* C1: in every reachable state and in each deployment, every event that
\* getEvents returns has as many participants as there are stored attendance
\* records with its id; each such record has exactly one participant with its
\* userId, and that participant carries the record's status and hasPaid and
\* the name of the stored user with that id; every participant has a record.
C1_ParticipantsMatchAttendance ==
    \A db \in Deployments :
        LET st     == Store(db)
            events == getEvents(db, st)
            att    == getAttendances(db, st)
        IN  \A e \in 1..Len(events) :
                LET parts == events[e].participants
                    recs  == EventAt(att, events[e].id)
                IN  /\ Len(parts) = Cardinality(recs)
                    /\ \A i \in recs :
                           LET at == PartAt(parts, att[i].userId)
                           IN  /\ Cardinality(at) = 1
                               /\ \A p \in at :
                                      /\ parts[p].status = att[i].status
                                      /\ parts[p].hasPaid = att[i].hasPaid
                                      /\ \A u \in getUser(db, st, att[i].userId) :
                                             parts[p].name = u.name
                    /\ \A p \in 1..Len(parts) :
                           PairAt(att, events[e].id, parts[p].userId) # {}

\* C1 witness: a user with an attendance record has just been renamed, and
\* an event shows the participant under the new name next to a participant
\* whose user is not stored.
C1_Witness ==
    /\ last.op = "updateUser"
    /\ \A db \in Deployments :
           /\ Ok(db)
           /\ \E E \in Range(getEvents(db, Store(db))) :
                  /\ Len(E.participants) >= 1
                  /\ \E p \in Range(E.participants) :
                         p.userId = last.userId /\ p.name = <<"B">>

\* C2: when deleteUser(u) has resolved, in each deployment getUser(u) finds
\* nothing and no event returned by getEvents has a participant with userId u.
C2_DeleteUserCascades ==
    last.op = "deleteUser" =>
        \A db \in Deployments :
            Ok(db) =>
                /\ getUser(db, Store(db), last.userId) = {}
                /\ \A E \in Range(getEvents(db, Store(db))) :
                       \A p \in Range(E.participants) : p.userId # last.userId

\* C2 witness: deleteUser has resolved for a stored user who had an
\* attendance record, and the event is still returned.
C2_Witness ==
    /\ last.op = "deleteUser"
    /\ \A db \in Deployments :
           /\ Ok(db)
           /\ Pre(db) = "found"
           /\ Refs(db) >= 1
           /\ getEvents(db, Store(db)) # <<>>

\* C3 (state part): when deleteEvent(e) has resolved, no deployment stores an
\* attendance record with eventId e.
C3_NoAttendanceLeft ==
    last.op = "deleteEvent" =>
        \A db \in Deployments :
            Ok(db) => EventAt(getAttendances(db, Store(db)), last.eventId) = {}

\* C3 (step part): when createEvent for id e directly follows deleteEvent(e),
\* every event with id e that getEvents returns has no participants.
C3_RecreatedEventIsEmpty ==
    (last.op = "deleteEvent" /\ last'.op = "createEvent"
        /\ last'.eventId = last.eventId)
    => \A db \in Deployments :
           \A E \in Range(getEvents(db, StoreNext(db))) :
               E.id = last.eventId => E.participants = <<>>

\* C3: after deleteEvent(e) the store holds no attendance record with
\* eventId e, and an event created again under id e shows no participant
\* recorded before the delete.
C3_DeleteEventCascades ==
    []C3_NoAttendanceLeft /\ [][C3_RecreatedEventIsEmpty]_vars

\* C3 witness: deleteEvent has resolved for a stored event that had an
\* attendance record in both deployments.
C3_Witness ==
    /\ last.op = "deleteEvent"
    /\ \A db \in Deployments : Ok(db) /\ Pre(db) = "found" /\ Refs(db) >= 1

\* C4 (state part): no deployment stores two attendance records with the
\* same (eventId, userId); when updateAttendance(e, u, status, hasPaid) has
\* resolved there is exactly one record for (e, u) and it carries the status
\* and the hasPaid of that call.
C4_OneRecordPerPair ==
    \A db \in Deployments :
        LET att == getAttendances(db, Store(db))
        IN  /\ \A i, j \in 1..Len(att) :
                   (att[i].eventId = att[j].eventId /\ att[i].userId = att[j].userId)
                       => i = j
            /\ (last.op = "updateAttendance" /\ Ok(db)) =>
                   LET at == PairAt(att, last.eventId, last.userId)
                   IN  /\ Cardinality(at) = 1
                       /\ \A i \in at :
                              /\ att[i].status = last.status
                              /\ att[i].hasPaid = (last.hasPaid = "true")

\* C4 (step part): a record stored after a call either belongs to the pair an
\* updateAttendance call has just written or was stored, with the same
\* status and hasPaid, before the call.
C4_WrittenOrUnchanged ==
    \A db \in Deployments :
        \A r \in Range(getAttendances(db, StoreNext(db))) :
            \/ /\ last'.op = "updateAttendance"
               /\ r.eventId = last'.eventId
               /\ r.userId = last'.userId
            \/ r \in Range(getAttendances(db, Store(db)))

\* C4: at most one attendance record per (eventId, userId), carrying the
\* status and hasPaid of the most recent updateAttendance call for the pair.
C4_UpsertByPair ==
    []C4_OneRecordPerPair /\ [][C4_WrittenOrUnchanged]_vars

\* C4 witness: updateAttendance has been called for a pair that already had
\* a record, changing the status, while another pair has a record too.
C4_Witness ==
    /\ last.op = "updateAttendance"
    /\ last.status = "declined"
    /\ \A db \in Deployments :
           /\ Pre(db) # "none"
           /\ Len(getAttendances(db, Store(db))) = 2

\* C5: an updateAttendance call for one (eventId, userId) pair leaves the
\* stored record of every other pair in place, in each deployment.
C5_OtherPairsKept ==
    [][last'.op = "updateAttendance" =>
          \A db \in Deployments :
              \A r \in Range(getAttendances(db, Store(db))) :
                  (r.eventId # last'.eventId \/ r.userId # last'.userId)
                      => r \in Range(getAttendances(db, StoreNext(db)))]_vars

\* C6 (state part): createUser(name) throws when a stored user's name equals
\* name after trimming and lower-casing; otherwise it resolves and the new
\* user is stored with the trimmed name.
C6_RejectsIffNameTaken ==
    last.op = "createUser" =>
        \A db \in Deployments :
            /\ Pre(db) = "match" => ~Ok(db)
            /\ Pre(db) = "none" =>
                   /\ Ok(db)
                   /\ \E u \in getUser(db, Store(db), last.userId) :
                          u.name = Trim(last.name)

\* C6 (step part): a createUser call that throws leaves the users unchanged,
\* one that resolves adds exactly one user.
C6_OneUserOrNone ==
    last'.op = "createUser" =>
        /\ IF last'.okL THEN Len(ls'.users) = Len(ls.users) + 1
                        ELSE ls'.users = ls.users
        /\ IF last'.okR
           THEN Cardinality(DOMAIN fs'.users) = Cardinality(DOMAIN fs.users) + 1
           ELSE fs'.users = fs.users

\* C6: createUser rejects exactly the names that match a stored name after
\* trimming and lower-casing, and stores one new user otherwise.
C6_CreateUserChecksName ==
    []C6_RejectsIffNameTaken /\ [][C6_OneUserOrNone]_vars

\* C7: updateUser, updateEvent, deleteEvent and deleteUser throw when the id
\* they are given is not stored.
C7_MissingTargetThrows ==
    last.op \in {"updateUser", "updateEvent", "deleteEvent", "deleteUser"} =>
        \A db \in Deployments : Pre(db) = "none" => ~Ok(db)

\* C8: when updateAttendance is called without hasPaid for a pair whose
\* record has hasPaid = true, the stored hasPaid is still true afterwards.
C8_OmittedHasPaidKeepsTrue ==
    (last.op = "updateAttendance" /\ last.hasPaid = "undefined") =>
        \A db \in Deployments :
            Pre(db) = "paid" =>
                LET att == getAttendances(db, Store(db))
                IN  \A i \in PairAt(att, last.eventId, last.userId) : att[i].hasPaid

\* the hasPaid a new record is to carry: false when the argument is omitted,
\* the argument otherwise
C9_Expected ==
    CASE last.hasPaid = "undefined" -> FALSE
      [] last.hasPaid = "true" -> TRUE
      [] last.hasPaid = "false" -> FALSE

\* C9: when updateAttendance has been called for a pair without a record,
\* the record now stored for the pair has hasPaid false if the argument was
\* omitted and the argument's value otherwise, and every event with that id
\* returned by getEvents shows exactly one participant for the user, with
\* that hasPaid.
C9_NewRecordHasPaid ==
    last.op = "updateAttendance" =>
        \A db \in Deployments :
            (Ok(db) /\ Pre(db) = "none") =>
                LET att == getAttendances(db, Store(db))
                    at  == PairAt(att, last.eventId, last.userId)
                IN  /\ at # {}
                    /\ \A i \in at : att[i].hasPaid = C9_Expected
                    /\ \A E \in Range(getEvents(db, Store(db))) :
                           E.id = last.eventId =>
                               LET ps == PartAt(E.participants, last.userId)
                               IN  /\ Cardinality(ps) = 1
                                   /\ \A p \in ps :
                                          E.participants[p].hasPaid = C9_Expected

\* C9 witness: updateAttendance has been called with hasPaid = true for a
\* pair without a record, and the event of the pair is stored.
C9_Witness ==
    /\ last.op = "updateAttendance"
    /\ last.hasPaid = "true"
    /\ \A db \in Deployments :
           /\ Pre(db) = "none"
           /\ \E E \in Range(getEvents(db, Store(db))) : E.id = last.eventId

\* how often x occurs in the sequence s
Count(s, x) == Cardinality({ i \in 1..Len(s) : s[i] = x })

\* two sequences with the same elements, each as often, in any order
SameElements(s, t) ==
    /\ Len(s) = Len(t)
    /\ \A x \in Range(s) \cup Range(t) : Count(s, x) = Count(t, x)

\* events with their participants taken in any order
Unordered(events) ==
    [e \in 1..Len(events) |->
        [events[e] EXCEPT !.participants =
            [p \in Range(events[e].participants) |->
                Count(events[e].participants, p)]]]

\* C10: after every call the two deployments have agreed on whether the call
\* threw, and getUsers and getEvents return the same users and the same
\* events with the same participants (in any order).
C10_BackendsAgree ==
    /\ last.okL = last.okR
    /\ SameElements(getUsers(NULL, ls), getUsers(FIRESTORE, fs))
    /\ SameElements(Unordered(getEvents(NULL, ls)),
                    Unordered(getEvents(FIRESTORE, fs)))

\* the attendance records of st whose userId matches no stored user
Orphans(db, st) ==
    LET att == getAttendances(db, st)
    IN  { i \in 1..Len(att) : getUser(db, st, att[i].userId) = {} }

\* C11: in each deployment, for every stored attendance record whose userId
\* matches no stored user, every event with the record's eventId that
\* getEvents returns has exactly one participant with that userId, and it
\* carries the name 'Neznámý' and the record's status and hasPaid.
C11_OrphanGetsFallbackName ==
    \A db \in Deployments :
        LET st  == Store(db)
            att == getAttendances(db, st)
        IN  \A i \in Orphans(db, st) :
                \A E \in Range(getEvents(db, st)) :
                    E.id = att[i].eventId =>
                        LET at == PartAt(E.participants, att[i].userId)
                        IN  /\ Cardinality(at) = 1
                            /\ \A p \in at :
                                   /\ E.participants[p].name = Neznamy
                                   /\ E.participants[p].status = att[i].status
                                   /\ E.participants[p].hasPaid = att[i].hasPaid

\* C11 witness: in both deployments a user is stored and a stored event has
\* an attendance record of a user that is not.
C11_Witness ==
    \A db \in Deployments :
        LET st  == Store(db)
            att == getAttendances(db, st)
        IN  /\ getUsers(db, st) # <<>>
            /\ \E i \in Orphans(db, st) :
                   \E E \in Range(getEvents(db, st)) : E.id = att[i].eventId

\* the getEvents call just made in the Firestore deployment had the read of
\* the users or of the attendance collection fail, and that of events succeed
C12_ReadFailed ==
    /\ last.op = "getEvents"
    /\ last.failed \cap {"users", "attendance"} # {}
    /\ "events" \notin last.failed

\* the call resolved with one event per stored event document
C12_EveryEventReturned ==
    LET result == getEventsCatch(FIRESTORE, fs, last.failed)
    IN  /\ last.okR
        /\ result.ok
        /\ Len(result.value) = Cardinality(DOMAIN fs.events)
        /\ \A d \in DOMAIN fs.events :
               \E E \in Range(result.value) : EventData(E) = fs.events[d]

\* C12 as stated: when the remote read of users or of attendance fails,
\* getEvents resolves with every stored event, each with an empty
\* participants list.
C12_FailedReadGivesNoParticipants ==
    C12_ReadFailed =>
        /\ C12_EveryEventReturned
        /\ \A E \in Range(getEventsCatch(FIRESTORE, fs, last.failed).value) :
               E.participants = <<>>

\* C12 amended: when the remote read of users or of attendance fails,
\* getEvents resolves with every stored event; if the attendance read failed
\* each has an empty participants list; if only the users read failed each
\* has one participant per attendance record of the event, with the record's
\* userId, status and hasPaid and the name 'Neznámý'.
C12_FailedReadIsEmptyInput ==
    C12_ReadFailed =>
        /\ C12_EveryEventReturned
        /\ \A E \in Range(getEventsCatch(FIRESTORE, fs, last.failed).value) :
               IF "attendance" \in last.failed
               THEN E.participants = <<>>
               ELSE LET att  == getDocs(fs.attendance)
                        recs == EventAt(att, E.id)
                    IN  /\ Len(E.participants) = Cardinality(recs)
                        /\ \A i \in recs :
                               \E p \in Range(E.participants) :
                                   p = [userId  |-> att[i].userId,
                                        name    |-> Neznamy,
                                        status  |-> att[i].status,
                                        hasPaid |-> att[i].hasPaid]

\* C12 witness: getEvents has been called with only the users read failing,
\* while the stored event has an attendance record of a stored user.
C12_Witness ==
    /\ last.op = "getEvents"
    /\ last.failed = {"users"}
    /\ \E d \in DOMAIN fs.attendance :
           /\ fs.attendance[d].eventId \in DOMAIN fs.events
           /\ fs.attendance[d].userId \in DOMAIN fs.users

\* C13 (state part): no stored event record, in either deployment, has a
\* participants field.
C13_NoStoredParticipants ==
    /\ \A i \in 1..Len(ls.events) : "participants" \notin DOMAIN ls.events[i]
    /\ \A d \in DOMAIN fs.events : "participants" \notin DOMAIN fs.events[d]

\* C13 (step part): an updateEvent call leaves the attendance collection of
\* each deployment as it was, and the participants of the events it returns
\* are those of the stored attendance records, not those of its argument.
C13_AttendanceKept ==
    last'.op = "updateEvent" =>
        /\ ls'.attendance = ls.attendance
        /\ fs'.attendance = fs.attendance
        /\ \A E \in Range(last'.returnedL) :
               Len(E.participants) = Cardinality(EventAt(ls.attendance, E.id))
        /\ \A E \in Range(last'.returnedR) :
               Len(E.participants)
                   = Cardinality(EventAt(getDocs(fs.attendance), E.id))

\* C13: updateEvent ignores the participants list of its argument: no stored
\* event ever has a participants field and updateEvent never changes the
\* attendance collection.
C13_UpdateEventIgnoresParticipants ==
    []C13_NoStoredParticipants /\ [][C13_AttendanceKept]_vars

\* C13 witness: updateEvent has been called for a stored event with an
\* argument that carries a participant, while an attendance record is stored.
C13_Witness ==
    /\ last.op = "updateEvent"
    /\ last.parts >= 1
    /\ \A db \in Deployments :
           /\ Pre(db) = "found"
           /\ getAttendances(db, Store(db)) # <<>>

\* C14: when createEvent has resolved, in each deployment the event was
\* stored under the id it was given, or under a generated id when it was
\* given none; the list the call returned contains an event with that id and
\* the given title, and it is the list getEvents returns in the state the
\* call left.
C14_CreateEventReturnsList ==
    last.op = "createEvent" =>
        \A db \in Deployments :
            /\ Ok(db)
            /\ last.eventId # NoId
            /\ \E E \in Range(Returned(db)) :
                   E.id = last.eventId /\ E.title = last.title
            /\ \E e \in Range(getRawEvents(db, Store(db))) :
                   e = [id |-> last.eventId, title |-> last.title]
            /\ Returned(db) = getEvents(db, Store(db))

\* C14 witness: createEvent has been called without an id and the event is
\* stored under a generated id, next to an event stored before.
C14_Witness ==
    /\ last.op = "createEvent"
    /\ last.eventId \in EventGenIds
    /\ \A db \in Deployments :
           /\ Pre(db) = "none"
           /\ Len(Returned(db)) = 2

\* the calendar date of today on the browser's clock at the last debt effect
Today == LocalDay(app.now, app.tz)

\* the positions of the debt items of event E in the client's debt list
DebtsOf(E) == { i \in 1..Len(app.unpaidDebts) : app.unpaidDebts[i].event = E }

\* C15: while a user is logged in, for every event of the client's list the
\* debt list holds an item for the event exactly if today's date is more than
\* one calendar day after the event's date and the current user has a
\* participant entry with status 'joined' and hasPaid false; the item's
\* daysOverdue is that number of days.  (An event dated the day before today
\* has no item.)
C15_DebtIffOverdueJoinedUnpaid ==
    (app.mounted /\ app.currentUser # NULL) =>
        \A E \in Range(app.events) :
            LET diff == Today - E.date
            IN  /\ (DebtsOf(E) # {}) <=>
                       /\ diff > 1
                       /\ \E p \in Range(E.participants) :
                              /\ p.userId = app.currentUser
                              /\ p.status = "joined"
                              /\ ~p.hasPaid
                /\ \A i \in DebtsOf(E) : app.unpaidDebts[i].daysOverdue = diff

\* amount is the least integer that, times the number of joined
\* participants, covers totalCost; 0 when nobody joined
C16_IsShare(amount, event) ==
    LET n == Cardinality({ i \in 1..Len(event.participants) :
                              event.participants[i].status = "joined" })
    IN  IF n = 0 THEN amount = 0
        ELSE /\ amount * n >= event.totalCost
             /\ (amount - 1) * n < event.totalCost

\* C16: the amount of every debt item and the costPerPerson of the event
\* detail view are the total cost divided by the number of joined
\* participants, rounded up, and 0 when nobody joined.
C16_AmountIsCeilOfShare ==
    /\ \A i \in 1..Len(app.unpaidDebts) :
           C16_IsShare(app.unpaidDebts[i].amount, app.unpaidDebts[i].event)
    /\ \A v \in detail : C16_IsShare(v.costPerPerson, v.event)

\* C16 witness: the event of total cost 1001 with three joined participants
\* is shown in the detail view with 334 per person, and the current user's
\* debt for it is 334.
C16_Witness ==
    /\ \E v \in detail :
           /\ v.event.totalCost = 1001
           /\ Len(Joined(v.event.participants)) = 3
           /\ v.costPerPerson = 334
    /\ \E i \in 1..Len(app.unpaidDebts) :
           /\ Len(Joined(app.unpaidDebts[i].event.participants)) = 3
           /\ app.unpaidDebts[i].amount = 334

\* C17: when handleDateSelect has run for a day on which the client's list
\* has events, the selected event is an event of that day with the earliest
\* time.
C17_DateSelectAutoSelects ==
    app.op = "handleDateSelect" =>
        LET onDay == { e \in Range(app.events) : e.date = app.clicked }
        IN  onDay # {} =>
                \E e \in onDay :
                    /\ app.selectedEventId = e.id
                    /\ \A x \in onDay : e.time <= x.time

\* k zeros
C18_Zeros(k) == [i \in 1..k |-> "0"]

\* the ways to read clean as [prefix-]number/bankCode with a prefix of 1 to 6
\* digits, a number of 1 to 10 digits and a bank code of 4 digits
C18_Native(clean) ==
    { g \in [prefix : { SubSeq(clean, 1, k) : k \in 0..Len(clean) },
             number : { SubSeq(clean, i, j) : i \in 1..Len(clean), j \in 0..Len(clean) },
             bankCode : IF Len(clean) < 4 THEN {}
                        ELSE { SubSeq(clean, Len(clean) - 3, Len(clean)) }] :
        /\ Len(clean) >= 6
        /\ clean = (IF g.prefix = <<>> THEN <<>> ELSE g.prefix \o <<"-">>)
                       \o g.number \o <<"/">> \o g.bankCode
        /\ \A c \in Range(g.prefix) \cup Range(g.number) \cup Range(g.bankCode) :
               c \in Range(Digits)
        /\ Len(g.prefix) <= 6
        /\ Len(g.number) >= 1
        /\ Len(g.number) <= 10
        /\ Len(g.bankCode) = 4 }

\* clean is CZ followed by 22 digits
C18_IsIban(clean) ==
    /\ Len(clean) = 24
    /\ clean[1] = "C"
    /\ clean[2] = "Z"
    /\ \A i \in 3..24 : clean[i] \in Range(Digits)

RECURSIVE C19_Mod97(_)
\* the numeral s (a sequence of digits) modulo 97
C19_Mod97(s) ==
    IF s = <<>> THEN 0
    ELSE (C19_Mod97(SubSeq(s, 1, Len(s) - 1)) * 10 + parseInt(s[Len(s)])) % 97

\* C19: for every account number the detail view converted from native
\* notation, the two characters after CZ are the digits of 98 minus (BBAN
\* followed by 123500) mod 97, a number from 2 to 98, and BBAN followed by
\* 1235 and the check digits is congruent to 1 mod 97.
C19_CheckDigitsValid ==
    \A v \in detail :
        C18_Native(RemoveWhitespace(v.event.accountNumber)) # {} =>
            \A r \in v.iban :
                LET bban  == SubSeq(r, 5, Len(r))
                    cc    == SubSeq(r, 3, 4)
                    check == parseInt(cc[1]) * 10 + parseInt(cc[2])
                IN  /\ Len(r) = 24
                    /\ check = 98 - C19_Mod97(bban \o <<"1", "2", "3", "5", "0", "0">>)
                    /\ check >= 2
                    /\ check <= 98
                    /\ C19_Mod97(bban \o <<"1", "2", "3", "5">> \o cc) = 1

\* C19 witness: the detail view has been rendered for "36/0100", whose check
\* digits are 02.
C19_Witness ==
    \E v \in detail :
        /\ v.event.accountNumber = <<"3", "6", "/", "0", "1", "0", "0">>
        /\ \E r \in v.iban : SubSeq(r, 3, 4) = <<"0", "2">>

\* C20: whenever the promise of a remote deleteUser or deleteEvent call has
\* settled, fulfilled or rejected, no attendance delete it issued is still
\* in flight.
C20_SettledAfterAllSubDeletes ==
    task.settled \in {"fulfilled", "rejected"} => task.pending = {}

\* the userIds of a sequence of attendance records or participants, in order
C21_UserIds(s) == [i \in 1..Len(s) |-> s[i].userId]

\* C21 (state part): in each deployment the participants of every event that
\* getEvents returns are, in the same order, the attendance records with the
\* event's id as getAttendances returns them.
C21_OrderPassedThrough ==
    \A db \in Deployments :
        LET att == getAttendances(db, Store(db))
        IN  \A E \in Range(getEvents(db, Store(db))) :
                LET OfEvent(a) == a.eventId = E.id
                IN  C21_UserIds(E.participants) = C21_UserIds(SelectSeq(att, OfEvent))

\* C21 (step part): with db = null, updateAttendance(e, u) for a pair with a
\* record leaves the array as long as it was, every other record where it
\* was and the pair's record at its position; for a pair without a record it
\* leaves the array as it was with the new record appended.
C21_LocalUpsertKeepsPosition ==
    last'.op = "updateAttendance" =>
        LET at == PairAt(ls.attendance, last'.eventId, last'.userId)
            n  == Len(ls.attendance)
        IN  IF at # {}
            THEN /\ Len(ls'.attendance) = n
                 /\ \A i \in 1..n :
                        IF i \in at
                        THEN /\ ls'.attendance[i].eventId = last'.eventId
                             /\ ls'.attendance[i].userId = last'.userId
                        ELSE ls'.attendance[i] = ls.attendance[i]
            ELSE /\ Len(ls'.attendance) = n + 1
                 /\ SubSeq(ls'.attendance, 1, n) = ls.attendance
                 /\ ls'.attendance[n + 1].eventId = last'.eventId
                 /\ ls'.attendance[n + 1].userId = last'.userId

\* C21: the participants of an event are its stored attendance records in
\* storage order, and the local updateAttendance keeps that order: an
\* existing record stays in place, a new one goes last.
C21_ParticipantsInStorageOrder ==
    []C21_OrderPassedThrough /\ [][C21_LocalUpsertKeepsPosition]_vars

\* C21 witness: with db = null, updateAttendance has been called for the pair
\* whose record is the first of two records of a stored event, and the
\* event's first participant is still that user.
C21_Witness ==
    /\ last.op = "updateAttendance"
    /\ last.preL # "none"
    /\ Len(ls.attendance) = 2
    /\ 1 \in PairAt(ls.attendance, last.eventId, last.userId)
    /\ \E E \in Range(getEvents(NULL, ls)) :
           /\ Len(E.participants) = 2
           /\ E.participants[1].userId = last.userId

RECURSIVE C22_Sum(_, _)
\* the sum of the amounts of the items of debts at the positions in S
C22_Sum(debts, S) ==
    IF S = {} THEN 0
    ELSE LET i == CHOOSE x \in S : TRUE
         IN  debts[i].amount + C22_Sum(debts, S \ {i})

\* C22: the debt list is empty when nobody is logged in or the client has no
\* events; its items belong to events of the client's list, in the order of
\* that list, at most one per event; and the banner shows as total the sum
\* of the amounts of all items.
C22_DebtListShape ==
    LET debts  == app.unpaidDebts
        events == app.events
    IN  /\ (app.currentUser = NULL \/ events = <<>>) => debts = <<>>
        /\ \E f \in [1..Len(debts) -> 1..Len(events)] :
               /\ \A i \in 1..Len(debts) : debts[i].event = events[f[i]]
               /\ \A i, j \in 1..Len(debts) : i < j => f[i] < f[j]
        /\ \A i, j \in 1..Len(debts) :
               debts[i].event.id = debts[j].event.id => i = j
        /\ \A b \in UnpaidBanner(debts) :
               /\ b.count = Len(debts)
               /\ b.totalDebt = C22_Sum(debts, 1..Len(debts))
        /\ (UnpaidBanner(debts) = {}) <=> (debts = <<>>)

\* C22 witness: of three past events the user has not paid the first and
\* the third; the debt list holds these two in that order and the banner
\* shows 150 + 200.
C22_Witness ==
    /\ Len(app.events) = 3
    /\ Len(app.unpaidDebts) = 2
    /\ app.unpaidDebts[1].event = app.events[1]
    /\ app.unpaidDebts[2].event = app.events[3]
    /\ \E b \in UnpaidBanner(app.unpaidDebts) : b.totalDebt = 350

\* C23: a getEvents call, whether its reads fail or not, leaves the users,
\* events and attendance collections of each deployment as they were.
C23_GetEventsReadsOnly ==
    [][last'.op = "getEvents" => (ls' = ls /\ fs' = fs)]_vars

\* C23 witness: getEvents has been called while each deployment stores an
\* event with an attendance record.
C23_Witness ==
    /\ last.op = "getEvents"
    /\ \A db \in Deployments :
           \E E \in Range(getEvents(db, Store(db))) : E.participants # <<>>

\* C24 as stated: in each deployment no two stored users have names that
\* are equal after trimming and lower-casing.
C24_NormalizedNamesUnique ==
    \A db \in Deployments :
        LET users == getUsers(db, Store(db))
        IN  \A i, j \in 1..Len(users) :
                ToLowerCase(Trim(users[i].name)) = ToLowerCase(Trim(users[j].name))
                    => i = j

\* every stored name is trimmed and no two are equal after lower-casing
C24_Canonical ==
    /\ C24_NormalizedNamesUnique
    /\ \A db \in Deployments :
           \A u \in Range(getUsers(db, Store(db))) : Trim(u.name) = u.name

\* the step is an updateUser call that changes a stored user
C24_Renames ==
    last'.op = "updateUser" /\ (ls'.users # ls.users \/ fs'.users # fs.users)

\* C24 amended: from a state where every stored name is trimmed and no two
\* names are equal after lower-casing, every createUser, deleteUser and
\* updateUser call that changes no stored user leads to such a state again;
\* only an updateUser call that changes a user can end it.
C24_CreationKeepsNamesUnique ==
    [][(C24_Canonical /\ ~C24_Renames) => C24_Canonical']_vars

\* C24 witness: createUser has just stored the name "a " trimmed, next to
\* a user with another name, and no updateUser call has made a name
\* untrimmed or equal to another.
C24_Witness ==
    /\ last.op = "createUser"
    /\ last.okL /\ last.okR
    /\ last.name = <<"a", " ">>
    /\ C24_Canonical
    /\ \A db \in Deployments : Len(getUsers(db, Store(db))) = 2

\* C25: two createUser calls that were suspended at their await at the same
\* time, with names equal after trimming and lower-casing, have not both
\* resolved, and no two stored users have names equal after trimming and
\* lower-casing.
C25_AtMostOneSucceeds ==
    /\ \A j, k \in Callers :
           (/\ j # k
            /\ calls[j].overlapped /\ calls[k].overlapped
            /\ ToLowerCase(Trim(calls[j].name)) = ToLowerCase(Trim(calls[k].name)))
               => ~(calls[j].pc = "resolved" /\ calls[k].pc = "resolved")
    /\ C24_NormalizedNamesUnique

\* C26: when deleteEvent(e) has completed for a stored event e, the next
\* call, unless it is createEvent with id e, leaves e absent from the list
\* getEvents returns, in each deployment; in particular an updateEvent call
\* for id e does not bring the event back.
C26_DeletedEventStaysDeleted ==
    [][(/\ last.op = "deleteEvent"
        /\ last.preL = "found" /\ last.preR = "found"
        /\ ~(last'.op = "createEvent" /\ last'.eventId = last.eventId))
       => \A db \in Deployments :
              \A E \in Range(getEvents(db, StoreNext(db))) : E.id # last.eventId]_vars

\* every attendance record of the deployment refers to a stored event and
\* to a stored user
C27_Referenced(db) ==
    \A a \in Range(getAttendances(db, Store(db))) :
        /\ EventPre(db, Store(db), a.eventId) = "found"
        /\ UserPre(db, Store(db), a.userId) = "found"

\* C27 as stated: in every reachable state every stored attendance record
\* refers to a stored event and a stored user.
C27_NoOrphanRecords == \A db \in Deployments : C27_Referenced(db)

\* the step is an updateAttendance call for an event or a user that is not
\* stored
C27_UpsertForUnknown ==
    /\ last'.op = "updateAttendance"
    /\ \E db \in Deployments :
           \/ EventPre(db, Store(db), last'.eventId) # "found"
           \/ UserPre(db, Store(db), last'.userId) # "found"

\* C27 amended: from a state where every attendance record refers to a
\* stored event and a stored user, every call leads to such a state again
\* (the delete cascades leave no record of the deleted event or user),
\* except an updateAttendance call for an event or user that is not stored.
C27_OnlyUpsertOrphans ==
    [][(C27_NoOrphanRecords /\ ~C27_UpsertForUnknown) => C27_NoOrphanRecords']_vars

\* C27 witness: deleteUser has removed a stored user together with the
\* record of their attendance at a stored event, and no attendance record
\* is left without its event or user.
C27_Witness ==
    /\ last.op = "deleteUser"
    /\ \A db \in Deployments :
           /\ Pre(db) = "found"
           /\ Refs(db) = 1
           /\ getRawEvents(db, Store(db)) # <<>>
           /\ getAttendances(db, Store(db)) = <<>>
    /\ C27_NoOrphanRecords

\* C28: in each deployment no two stored events share an id, and no two
\* events of the list getEvents returns share an id.
C28_EventIdsUnique ==
    \A db \in Deployments :
        LET raw    == getRawEvents(db, Store(db))
            events == getEvents(db, Store(db))
        IN  /\ \A i, j \in 1..Len(raw) : raw[i].id = raw[j].id => i = j
            /\ \A i, j \in 1..Len(events) : events[i].id = events[j].id => i = j

\* C29: whenever App's or EventDetail's loading flag is raised, it is
\* lowered again later, whether the storage call the handler awaits
\* resolves or rejects.
C29_LoadingEventuallyLowered ==
    /\ ui.isLoading ~> ~ui.isLoading
    /\ ui.detailLoading ~> ~ui.detailLoading

\* C30: for every item of the debt list whose event has an integer total
\* cost >= 0 and n >= 1 joined participants, the amount a satisfies
\* a * n >= totalCost and (a - 1) * n < totalCost: n payments of a cover the
\* total cost and exceed it by less than n.
C30_JoinedCoverCost ==
    \A i \in 1..Len(app.unpaidDebts) :
        LET item == app.unpaidDebts[i]
            n    == Len(Joined(item.event.participants))
            a    == item.amount
            over == a * n - item.event.totalCost
        IN  (item.event.totalCost >= 0 /\ n >= 1) =>
                /\ a * n >= item.event.totalCost
                /\ (a - 1) * n < item.event.totalCost
                /\ over \in 0..(n - 1)

\* C30 witness: the user owes 14 for an event of total cost 40 that three
\* joined (the three pay 42, two more than the cost) and 0 for an event of
\* total cost 0 that two joined.
C30_Witness ==
    /\ Len(app.unpaidDebts) = 2
    /\ app.unpaidDebts[1].event.totalCost = MaxCost
    /\ Len(Joined(app.unpaidDebts[1].event.participants)) = 3
    /\ app.unpaidDebts[1].amount * 3 = MaxCost + 2
    /\ app.unpaidDebts[2].event.totalCost = 0
    /\ Len(Joined(app.unpaidDebts[2].event.participants)) = 2
    /\ app.unpaidDebts[2].amount = 0

====
